---- MODULE Spec2Model ----
(***************************************************************************)
(* A model of the enhanced Express API of src/index.js: the in-memory      *)
(* users, categories and items stores, the authentication and              *)
(* authorization middleware, and the request handlers.  A handler that     *)
(* awaits bcrypt is two steps (up to the await, after the await); every    *)
(* other handler, with its whole middleware chain, is one step, as Node    *)
(* runs it.  The rate limiters are external and are not modelled.          *)
(***************************************************************************)
EXTENDS Integers, Sequences, FiniteSets, Bags, TLC

VARIABLES
  users,           \* the users array
  nextUserId,
  categories,      \* the categories array
  nextCategoryId,
  items,           \* the items array
  nextId,
  regs,            \* bag of registrations suspended at `await bcrypt.hash`
  logins,          \* bag of logins suspended at `await bcrypt.compare`
  resp             \* the request last handled and the response it got

vars == <<users, nextUserId, categories, nextCategoryId, items, nextId,
          regs, logins, resp>>

-----------------------------------------------------------------------------
(* Bounds of the model.                                                    *)

\* most users the store grows to (two are seeded)
MaxUsers == 4
\* most requests suspended on bcrypt at the same time
MaxInflight == 2
\* most categories the store grows to (three are seeded)
MaxCategories == 4
\* most items ever created (two are seeded)
MaxItems == 3
\* most items of a store that a list request is made on
MaxStore == 3
\* most items of a store that a filtered list request is made on
MaxFilterStore == 2
\* most items of a store that a sorted list request is made on
MaxSortStore == 3
\* highest id a bulk request creates (two items are seeded)
MaxBulkId == 4
\* most entries of the array of a bulk request
MaxBulkLen == 2

-----------------------------------------------------------------------------
(* Strings.  TLC has no string operations, so the string functions the     *)
(* code uses are tabulated over the strings the model's requests draw.     *)

\* String.prototype.trim
Trim(s) ==
  CASE s = " user1 " -> "user1"
    [] s = " bob"    -> "bob"
    [] s = " sale"   -> "sale"
    [] OTHER         -> s

\* String.prototype.toLowerCase
toLowerCase(s) ==
  CASE s = "Electronics" -> "electronics"
    [] s = "ELECTRONICS" -> "electronics"
    [] s = "Books"       -> "books"
    [] s = "Clothing"    -> "clothing"
    [] s = "Toys"        -> "toys"
    [] s = "Tech"        -> "tech"
    [] s = "TECH"        -> "tech"
    [] s = "Sale"        -> "sale"
    [] s = "Banana"      -> "banana"
    [] s = "Cherry"      -> "cherry"
    [] s = "Tablet"      -> "tablet"
    [] OTHER             -> s

\* the place of a string in the order of JavaScript's < and >, which compare
\* code units: upper-case letters come before lower-case ones
codeUnitRank(s) ==
  CASE s = "Banana" -> 1
    [] s = "Cherry" -> 2
    [] s = "Tablet" -> 3
    [] s = "apple"  -> 4
    [] s = "banana" -> 5
    [] s = "cherry" -> 6
    [] s = "tablet" -> 7
    [] OTHER        -> 0

\* express-validator's normalizeEmail(): lower-cases the address
normalizeEmail(e) ==
  CASE e = "Bob@Example.com" -> "bob@example.com"
    [] OTHER                 -> e

\* /^[a-zA-Z0-9_]+$/ and 3..30 characters
UsernamePattern == {"admin", "user1", "bob", "eve"}

\* isEmail()
EmailPattern == {"admin@example.com", "user1@example.com",
                 "bob@example.com", "eve@example.com", "Bob@Example.com"}

\* at least 6 characters, one lower-case letter, one upper-case letter, one digit
PasswordPattern == {"Passw0rd1"}

-----------------------------------------------------------------------------
(* bcryptjs and jsonwebtoken.                                              *)

\* bcrypt.hash(password, 10): a digest that bcrypt.compare matches against
\* the password it was made from and no other
bcryptHash(password) == <<"$2a$10$", password>>

\* a faulty comparison, which accepts every password
bcryptCompareAny(password, hash) == TRUE

bcryptCompare(password, hash) == hash = bcryptHash(password)

\* no Authorization header, or one without a second word
NoToken == [kind |-> "none", userId |-> 0]

\* a token jwt.verify rejects: malformed, wrongly signed or expired
BadToken == [kind |-> "invalid", userId |-> 0]

generateToken(userId) == [kind |-> "jwt", userId |-> userId]

-----------------------------------------------------------------------------
(* The stores after construction.                                          *)

InitUsers ==
  << [id |-> 1, username |-> "admin", email |-> "admin@example.com",
      password |-> bcryptHash("password"), role |-> "admin", isActive |-> TRUE],
     [id |-> 2, username |-> "user1", email |-> "user1@example.com",
      password |-> bcryptHash("password"), role |-> "user", isActive |-> TRUE] >>

InitCategories ==
  << [id |-> 1, name |-> "Electronics"],
     [id |-> 2, name |-> "Books"],
     [id |-> 3, name |-> "Clothing"] >>

\* prices are counted in cents
\* `new Date()`.  An instant is the number of its day: the initial items
\* are of days 1 and 2, the requests are served on a later day.
Now == 3

InitItems ==
  << [id |-> 1, name |-> "Smartphone",
      description |-> "Latest model smartphone with advanced features",
      price |-> 99999, categoryId |-> 1, userId |-> 1,
      tags |-> <<"electronics", "mobile", "technology">>, stock |-> 50,
      createdAt |-> 1, updatedAt |-> 1, isActive |-> TRUE],
     [id |-> 2, name |-> "Programming Book",
      description |-> "Complete guide to Node.js development",
      price |-> 4999, categoryId |-> 2, userId |-> 2,
      tags |-> <<"books", "programming", "nodejs">>, stock |-> 25,
      createdAt |-> 2, updatedAt |-> 2, isActive |-> TRUE] >>

-----------------------------------------------------------------------------
(* Array helpers.  An index is 1-based; 0 stands for JavaScript's -1 of    *)
(* findIndex and for the undefined of find.                                *)

findIndex(arr, P(_)) ==
  IF \E i \in 1..Len(arr) : P(arr[i])
    THEN CHOOSE i \in 1..Len(arr) : P(arr[i]) /\ \A j \in 1..(i - 1) : ~P(arr[j])
    ELSE 0

findUserById(id) == LET P(u) == u.id = id IN findIndex(users, P)

findUserByUsername(username) ==
  LET P(u) == u.username = username IN findIndex(users, P)

\* a faulty lookup, which compares the email with the usernames
findUserByEmailInNames(email) ==
  LET P(u) == u.username = email IN findIndex(users, P)

findUserByEmail(email) == LET P(u) == u.email = email IN findIndex(users, P)

findCategoryById(id) == LET P(c) == c.id = id IN findIndex(categories, P)

findItemById(id) == LET P(i) == i.id = id IN findIndex(items, P)

-----------------------------------------------------------------------------
(* JSON values of a body: a field that is present, or undefined.           *)

JsonBool(b) == [type |-> "boolean", val |-> b]

JsonNum(n) == [type |-> "number", val |-> n]

JsonArray(a) == [type |-> "array", val |-> a]

JsonString(s) == [type |-> "string", val |-> s]

\* what parseInt makes of a string that does not start with a number
JsonNaN == [type |-> "NaN", val |-> 0]

JsonUndefined == [type |-> "undefined", val |-> FALSE]

-----------------------------------------------------------------------------
(* The response record.  status 0: the handler is suspended at an await    *)
(* and has not answered.  `user` is req.user.id (0: none attached),        *)
(* `issued` the token of a 200/201 of /auth, `why` the message's kind,      *)
(* `id` the :id parameter, `query` the query string of a list request,     *)
(* `data` and `pagination` the list it is answered, `list` the array of a   *)
(* bulk request, `created`, `deleted` and `errors` the arrays it is        *)
(* answered, `views` the user objects of the answer's body, `enriched` the   *)
(* category and the user each item of `data` is answered with, and the     *)
(* other fields the sanitized body.                                        *)

\* a query string without parameters
NoQuery ==
  [page |-> JsonUndefined, limit |-> JsonUndefined, category |-> JsonUndefined,
   minPrice |-> JsonUndefined, maxPrice |-> JsonUndefined,
   userId |-> JsonUndefined, active |-> JsonUndefined, tags |-> JsonUndefined,
   sortBy |-> "", sortOrder |-> ""]

NoPagination ==
  [currentPage |-> 0, totalPages |-> 0, totalItems |-> 0, itemsPerPage |-> 0,
   hasNextPage |-> FALSE, hasPreviousPage |-> FALSE]

NoResp ==
  [op |-> "", status |-> 0, why |-> "", tok |-> NoToken, user |-> 0, id |-> 0,
   username |-> "", email |-> "", password |-> "", name |-> "",
   isActive |-> JsonUndefined, issued |-> NoToken,
   query |-> NoQuery, data |-> <<>>, pagination |-> NoPagination,
   list |-> <<>>, created |-> <<>>, deleted |-> <<>>, errors |-> <<>>,
   views |-> <<>>, enriched |-> <<>>]

-----------------------------------------------------------------------------
(* Middleware.                                                             *)

\* authenticateToken: the status it answers with, 0 when it calls next()
\* with req.user set to users[AuthUser(token)]
AuthUser(token) == IF token.kind = "jwt" THEN findUserById(token.userId) ELSE 0

\* a faulty middleware, which does not look at isActive
authenticateTokenAnyStatus(token) ==
  IF token.kind = "none" THEN 401
  ELSE IF token.kind # "jwt" THEN 403
  ELSE IF AuthUser(token) = 0 THEN 403
  ELSE 0

authenticateToken(token) ==
  IF token.kind = "none" THEN 401
  ELSE IF token.kind # "jwt" THEN 403
  ELSE IF AuthUser(token) = 0 \/ ~users[AuthUser(token)].isActive THEN 403
  ELSE 0

\* a faulty middleware, which lets every role pass
requireAdminAnyRole(user) == 0

\* requireAdmin
requireAdmin(user) == IF user.role # "admin" THEN 403 ELSE 0

\* validateIdParam: param('id').isInt({ min: 1 })
validateIdParam(id) == id >= 1

\* validateUserRegistration, on the raw body
validateUserRegistration(body) ==
  /\ body.username \in UsernamePattern
  /\ body.email \in EmailPattern
  /\ body.password \in PasswordPattern

\* body('isActive').isBoolean()
isBoolean(v) == v.type = "boolean"

\* validateCategoryData: name notEmpty(), 1..50 characters
validateCategoryData(body) == body.name # ""

\* validateItemData: name and description notEmpty(); price an optional
\* float >= 0, categoryId an optional integer >= 1, tags an optional array,
\* stock an optional integer >= 0
validateItemData(body) ==
  /\ body.name # "" /\ body.description # ""
  /\ body.price.type = "number" => body.price.val >= 0
  /\ body.categoryId.type = "number" => body.categoryId.val >= 1
  /\ body.tags.type \in {"undefined", "array"}
  /\ body.stock.type = "number" => body.stock.val >= 0

\* validateUserLogin: both fields notEmpty()
validateUserLogin(body) == body.username # "" /\ body.password # ""

-----------------------------------------------------------------------------
(* POST /auth/register                                                     *)

InFlight == BagCardinality(regs) + BagCardinality(logins)

\* up to `await bcrypt.hash`
RegisterStart(raw) ==
  LET body == [username |-> Trim(raw.username),
               email    |-> normalizeEmail(raw.email),
               password |-> raw.password]
      r == [NoResp EXCEPT !.op = "register"]
  IN
  /\ UNCHANGED <<users, nextUserId, categories, nextCategoryId, items, nextId, logins>>
  /\ IF ~validateUserRegistration(raw)
       THEN /\ resp' = [r EXCEPT !.status = 400, !.why = "validation"]
            /\ UNCHANGED regs
     ELSE IF findUserByUsername(body.username) # 0
       THEN /\ resp' = [r EXCEPT !.status = 409, !.why = "username",
                                 !.username = body.username, !.email = body.email,
                                 !.password = body.password]
            /\ UNCHANGED regs
     ELSE IF findUserByEmail(body.email) # 0
       THEN /\ resp' = [r EXCEPT !.status = 409, !.why = "email",
                                 !.username = body.username, !.email = body.email,
                                 !.password = body.password]
            /\ UNCHANGED regs
     ELSE /\ InFlight < MaxInflight
          /\ Len(users) + BagCardinality(regs) < MaxUsers
          /\ regs' = regs (+) SetToBag({body})
          /\ resp' = [r EXCEPT !.status = 0, !.why = "await",
                               !.username = body.username, !.email = body.email,
                               !.password = body.password]

\* a faulty response, which holds the user as stored
withPassword(user) == user

\* `const { password, ...userResponse } = user`
withoutPassword(user) == [f \in DOMAIN user \ {"password"} |-> user[f]]

\* the user an item is answered with by the list and the write endpoints
itemUser(user) == [id |-> user.id, username |-> user.username]

\* the user an item is answered with by GET /api/items/:id
itemUserDetail(user) ==
  [id |-> user.id, username |-> user.username, email |-> user.email]

\* the users the items of a list are answered with; an item whose user is
\* not found is answered with null
RECURSIVE itemUsers(_)
itemUsers(arr) ==
  IF arr = <<>> THEN <<>>
  ELSE IF findUserById(Head(arr).userId) = 0 THEN itemUsers(Tail(arr))
  ELSE <<itemUser(users[findUserById(Head(arr).userId)])>> \o itemUsers(Tail(arr))

\* after `await bcrypt.hash`
RegisterFinish(body) ==
  LET newUser == [id |-> nextUserId, username |-> body.username,
                  email |-> body.email, password |-> bcryptHash(body.password),
                  role |-> "user", isActive |-> TRUE]
  IN
  /\ BagIn(body, regs)
  /\ regs' = regs (-) SetToBag({body})
  /\ nextUserId' = nextUserId + 1
  /\ users' = Append(users, newUser)
  /\ resp' = [NoResp EXCEPT !.op = "register", !.status = 201, !.why = "created",
                            !.user = newUser.id, !.username = body.username,
                            !.email = body.email, !.password = body.password,
                            !.issued = generateToken(newUser.id),
                            !.views = <<withoutPassword(newUser)>>]
  /\ UNCHANGED <<categories, nextCategoryId, items, nextId, logins>>

-----------------------------------------------------------------------------
(* POST /auth/login                                                        *)

\* up to `await bcrypt.compare`; the handler keeps the user object it found
LoginStart(raw) ==
  LET body == [username |-> Trim(raw.username), password |-> raw.password]
      u == findUserByUsername(body.username)
      r == [NoResp EXCEPT !.op = "login"]
  IN
  /\ UNCHANGED <<users, nextUserId, categories, nextCategoryId, items, nextId, regs>>
  /\ IF ~validateUserLogin(raw)
       THEN /\ resp' = [r EXCEPT !.status = 400, !.why = "validation"]
            /\ UNCHANGED logins
     ELSE IF u = 0 \/ ~users[u].isActive
       THEN /\ resp' = [r EXCEPT !.status = 401, !.why = "credentials",
                                 !.username = body.username,
                                 !.password = body.password]
            /\ UNCHANGED logins
     ELSE /\ InFlight < MaxInflight
          /\ logins' = logins (+) SetToBag({[user |-> users[u].id,
                                             username |-> body.username,
                                             password |-> body.password]})
          /\ resp' = [r EXCEPT !.status = 0, !.why = "await",
                               !.user = users[u].id,
                               !.username = body.username,
                               !.password = body.password]

\* after `await bcrypt.compare`
LoginFinish(l) ==
  LET user == users[findUserById(l.user)]
      r == [NoResp EXCEPT !.op = "login", !.user = user.id,
                          !.username = l.username, !.password = l.password]
  IN
  /\ BagIn(l, logins)
  /\ logins' = logins (-) SetToBag({l})
  /\ IF ~bcryptCompare(l.password, user.password)
       THEN resp' = [r EXCEPT !.status = 401, !.why = "password"]
       ELSE resp' = [r EXCEPT !.status = 200, !.why = "ok",
                              !.issued = generateToken(user.id),
                              !.views = <<withoutPassword(user)>>]
  /\ UNCHANGED <<users, nextUserId, categories, nextCategoryId, items, nextId, regs>>

-----------------------------------------------------------------------------
(* PUT /api/users/:id/status                                               *)

\* a faulty self-protection, which guards the activation instead
selfActivation(id, me, isActive) == id = me.id /\ isActive

\* `parseInt(id) === req.user.id && !isActive`
selfDeactivation(id, me, isActive) == id = me.id /\ ~isActive

UpdateUserStatus(token, id, json) ==
  LET a == authenticateToken(token)
      isActive == json.val
      me == users[AuthUser(token)]
      userIndex == findUserById(id)
      r == [NoResp EXCEPT !.op = "putUserStatus", !.tok = token, !.id = id,
                          !.isActive = json]
  IN
  /\ UNCHANGED <<nextUserId, categories, nextCategoryId, items, nextId, regs, logins>>
  /\ IF a # 0
       THEN /\ resp' = [r EXCEPT !.status = a, !.why = "auth"]
            /\ UNCHANGED users
     ELSE IF requireAdmin(me) # 0
       THEN /\ resp' = [r EXCEPT !.status = 403, !.why = "admin", !.user = me.id]
            /\ UNCHANGED users
     ELSE IF ~validateIdParam(id) \/ ~isBoolean(json)
       THEN /\ resp' = [r EXCEPT !.status = 400, !.why = "validation", !.user = me.id]
            /\ UNCHANGED users
     ELSE IF userIndex = 0
       THEN /\ resp' = [r EXCEPT !.status = 404, !.why = "notFound", !.user = me.id]
            /\ UNCHANGED users
     ELSE IF selfDeactivation(id, me, isActive)
       THEN /\ resp' = [r EXCEPT !.status = 400, !.why = "self", !.user = me.id]
            /\ UNCHANGED users
     ELSE /\ users' = [users EXCEPT ![userIndex].isActive = isActive]
          /\ resp' = [r EXCEPT !.status = 200, !.why = "ok", !.user = me.id,
                               !.views = <<withoutPassword(users'[userIndex])>>]

-----------------------------------------------------------------------------
(* Helpers of the handlers.                                                *)

\* the null of an item without a category
Null == 0

\* `x || d` for a body field: d when the field is undefined or falsy
OrElse(json, d) ==
  IF json.type = "undefined" \/ (json.type = "number" /\ json.val = 0)
    THEN d ELSE json.val

\* `x !== undefined ? x : d`
IfDefined(json, d) == IF json.type = "undefined" THEN d ELSE json.val

DefaultLimit == 10

MaxLimit == 100

Max(a, b) == IF a >= b THEN a ELSE b

Min(a, b) == IF a <= b THEN a ELSE b

\* a faulty pagination, whose skip counts the requested page too
getPaginationParamsSkipOne(q) ==
  LET page == Max(1, OrElse(q.page, 1))
      limit == Min(MaxLimit, Max(1, OrElse(q.limit, DefaultLimit)))
  IN [page |-> page, limit |-> limit, skip |-> page * limit]

getPaginationParams(q) ==
  LET page == Max(1, OrElse(q.page, 1))
      limit == Min(MaxLimit, Max(1, OrElse(q.limit, DefaultLimit)))
  IN [page |-> page, limit |-> limit, skip |-> (page - 1) * limit]

\* a faulty slice, which runs to the end of the array
sliceToEnd(arr, start, end) == SubSeq(arr, start + 1, Len(arr))

\* Array.prototype.slice(start, end), 0-based, end excluded
slice(arr, start, end) == SubSeq(arr, start + 1, Min(end, Len(arr)))

-----------------------------------------------------------------------------
(* GET /auth/me and the other admin-only endpoints.                        *)

\* a faulty chain, whose validators come before authenticateToken
GateValidationFirst(token, admin, valid) ==
  IF ~valid THEN [status |-> 400, why |-> "validation", user |-> 0]
  ELSE IF authenticateToken(token) # 0
    THEN [status |-> authenticateToken(token), why |-> "auth", user |-> 0]
  ELSE IF admin /\ requireAdmin(users[AuthUser(token)]) # 0
    THEN [status |-> 403, why |-> "admin", user |-> users[AuthUser(token)].id]
  ELSE [status |-> 0, why |-> "", user |-> users[AuthUser(token)].id]

\* what a handler answers when a middleware before it has answered: the
\* status and its kind, or 0 when the chain reaches the handler
Gate(token, admin, valid) ==
  IF authenticateToken(token) # 0
    THEN [status |-> authenticateToken(token), why |-> "auth", user |-> 0]
  ELSE IF admin /\ requireAdmin(users[AuthUser(token)]) # 0
    THEN [status |-> 403, why |-> "admin", user |-> users[AuthUser(token)].id]
  ELSE IF ~valid
    THEN [status |-> 400, why |-> "validation", user |-> users[AuthUser(token)].id]
  ELSE [status |-> 0, why |-> "", user |-> users[AuthUser(token)].id]

Answer(r, g) == [r EXCEPT !.status = g.status, !.why = g.why, !.user = g.user]

\* GET /auth/me
AuthMe(token) ==
  LET g == Gate(token, FALSE, TRUE)
      r == [NoResp EXCEPT !.op = "me", !.tok = token]
  IN
  /\ resp' = IF g.status # 0 THEN Answer(r, g)
             ELSE [r EXCEPT !.status = 200, !.why = "ok", !.user = g.user,
                            !.views = <<withoutPassword(users[AuthUser(token)])>>]
  /\ UNCHANGED <<users, nextUserId, categories, nextCategoryId, items, nextId,
                 regs, logins>>

\* POST /api/categories
CreateCategory(token, raw) ==
  LET g == Gate(token, TRUE, validateCategoryData(raw))
      name == Trim(raw.name)
      P(cat) == toLowerCase(cat.name) = toLowerCase(name)
      existingCategory == findIndex(categories, P)
      newCategory == [id |-> nextCategoryId, name |-> Trim(name)]
      r == [NoResp EXCEPT !.op = "createCategory", !.tok = token]
  IN
  /\ UNCHANGED <<users, nextUserId, items, nextId, regs, logins>>
  /\ IF g.status # 0
       THEN /\ resp' = Answer(r, g)
            /\ UNCHANGED <<categories, nextCategoryId>>
     ELSE IF existingCategory # 0
       THEN /\ resp' = [r EXCEPT !.status = 409, !.why = "name", !.user = g.user,
                                 !.name = name]
            /\ UNCHANGED <<categories, nextCategoryId>>
     ELSE /\ Len(categories) < MaxCategories
          /\ nextCategoryId' = nextCategoryId + 1
          /\ categories' = Append(categories, newCategory)
          /\ resp' = [r EXCEPT !.status = 201, !.why = "created", !.user = g.user,
                               !.id = newCategory.id, !.name = name]

\* the query checks of GET /api/users: role isIn(['admin', 'user']), active
\* isBoolean(), both optional ("" is a parameter that is not given)
validateUsersQuery(q) ==
  /\ q.page.type = "number" => q.page.val >= 1
  /\ q.limit.type = "number" => q.limit.val >= 1 /\ q.limit.val <= MaxLimit
  /\ q.role \in {"", "admin", "user"}
  /\ q.active \in {"", "true", "false", "1", "0"}

\* the callback of users.filter; "" is a parameter that is not given
passesUserFilters(user, role, active) ==
  /\ role # "" => user.role = role
  /\ active # "" => user.isActive = (active = "true")

\* the users GET /api/users answers, after the filters and the pagination
usersResponse(q) ==
  LET p == getPaginationParams(q)
      P(user) == passesUserFilters(user, q.role, q.active)
      paginatedUsers == slice(SelectSeq(users, P), p.skip, p.skip + p.limit)
  IN [k \in 1..Len(paginatedUsers) |-> withoutPassword(paginatedUsers[k])]

\* GET /api/users
GetUsers(token, q) ==
  LET g == Gate(token, TRUE, validateUsersQuery(q))
      r == [NoResp EXCEPT !.op = "getUsers", !.tok = token]
  IN
  /\ resp' = IF g.status # 0 THEN Answer(r, g)
             ELSE [r EXCEPT !.status = 200, !.why = "ok", !.user = g.user,
                            !.views = usersResponse(q)]
  /\ UNCHANGED <<users, nextUserId, categories, nextCategoryId, items, nextId,
                 regs, logins>>

\* GET /api/users/:id
GetUserById(token, id) ==
  LET g == Gate(token, TRUE, validateIdParam(id))
      r == [NoResp EXCEPT !.op = "getUserById", !.tok = token, !.id = id]
  IN
  /\ resp' = IF g.status # 0 THEN Answer(r, g)
             ELSE IF findUserById(id) = 0
               THEN [r EXCEPT !.status = 404, !.why = "notFound", !.user = g.user]
             ELSE [r EXCEPT !.status = 200, !.why = "ok", !.user = g.user,
                            !.views = <<withoutPassword(users[findUserById(id)])>>]
  /\ UNCHANGED <<users, nextUserId, categories, nextCategoryId, items, nextId,
                 regs, logins>>

\* GET /api/stats
GetStats(token) ==
  LET g == Gate(token, TRUE, TRUE)
      r == [NoResp EXCEPT !.op = "getStats", !.tok = token]
  IN
  /\ resp' = IF g.status # 0 THEN Answer(r, g)
             ELSE [r EXCEPT !.status = 200, !.why = "ok", !.user = g.user]
  /\ UNCHANGED <<users, nextUserId, categories, nextCategoryId, items, nextId,
                 regs, logins>>

-----------------------------------------------------------------------------
(* The items endpoints that change the store.                              *)

\* a faulty check, which rejects the categories that exist
invalidCategoryInverted(categoryId) ==
  /\ categoryId.type # "undefined" /\ categoryId.val # 0
  /\ findCategoryById(categoryId.val) # 0

\* `categoryId && !findCategoryById(categoryId)`
invalidCategory(categoryId) ==
  /\ categoryId.type # "undefined" /\ categoryId.val # 0
  /\ findCategoryById(categoryId.val) = 0

\* a faulty ownership check, which stops only admins
notOwnerButAdmin(existingItem, user) ==
  existingItem.userId # user.id /\ user.role = "admin"

\* `existingItem.userId !== req.user.id && req.user.role !== 'admin'`
notOwnerNorAdmin(existingItem, user) ==
  existingItem.userId # user.id /\ user.role # "admin"

\* Array.prototype.splice(index, 1)
splice(arr, index) == SubSeq(arr, 1, index - 1) \o SubSeq(arr, index + 1, Len(arr))

\* a faulty allocation, which leaves the counter as it is
unchangedCounter(counter) == counter

\* the counter after `nextId++`
incremented(counter) == counter + 1

\* a faulty handler, which takes the id before it checks the category
CreateItemCountingFirst(token, body) ==
  LET g == Gate(token, FALSE, validateItemData(body))
      newItem == [id |-> nextId, name |-> Trim(body.name),
                  description |-> Trim(body.description),
                  price |-> OrElse(body.price, 0),
                  categoryId |-> OrElse(body.categoryId, Null),
                  userId |-> g.user,
                  tags |-> OrElse(body.tags, <<>>),
                  stock |-> OrElse(body.stock, 0),
                  createdAt |-> Now, updatedAt |-> Now,
                  isActive |-> TRUE]
      r == [NoResp EXCEPT !.op = "createItem", !.tok = token]
  IN
  /\ UNCHANGED <<users, nextUserId, categories, nextCategoryId, regs, logins>>
  /\ IF g.status # 0
       THEN /\ resp' = Answer(r, g)
            /\ UNCHANGED <<items, nextId>>
     ELSE /\ nextId <= MaxItems
          /\ nextId' = incremented(nextId)
          /\ IF invalidCategory(body.categoryId)
               THEN /\ resp' = [r EXCEPT !.status = 400, !.why = "category",
                                         !.user = g.user]
                    /\ UNCHANGED items
               ELSE /\ items' = Append(items, newItem)
                    /\ resp' = [r EXCEPT !.status = 201, !.why = "created",
                                         !.user = g.user, !.id = newItem.id,
                                         !.views = <<itemUser(users[AuthUser(token)])>>]

\* POST /api/items
CreateItem(token, body) ==
  LET g == Gate(token, FALSE, validateItemData(body))
      newItem == [id |-> nextId, name |-> Trim(body.name),
                  description |-> Trim(body.description),
                  price |-> OrElse(body.price, 0),
                  categoryId |-> OrElse(body.categoryId, Null),
                  userId |-> g.user,
                  tags |-> OrElse(body.tags, <<>>),
                  stock |-> OrElse(body.stock, 0),
                  createdAt |-> Now, updatedAt |-> Now,
                  isActive |-> TRUE]
      r == [NoResp EXCEPT !.op = "createItem", !.tok = token]
  IN
  /\ UNCHANGED <<users, nextUserId, categories, nextCategoryId, regs, logins>>
  /\ IF g.status # 0
       THEN /\ resp' = Answer(r, g)
            /\ UNCHANGED <<items, nextId>>
     ELSE IF invalidCategory(body.categoryId)
       THEN /\ resp' = [r EXCEPT !.status = 400, !.why = "category", !.user = g.user]
            /\ UNCHANGED <<items, nextId>>
     ELSE /\ nextId <= MaxItems
          /\ nextId' = incremented(nextId)
          /\ items' = Append(items, newItem)
          /\ resp' = [r EXCEPT !.status = 201, !.why = "created", !.user = g.user,
                               !.id = newItem.id,
                               !.views = <<itemUser(users[AuthUser(token)])>>]

\* a faulty update, which keeps the previous value of a field given as 0
updatedItemOrElse(existingItem, body, user) ==
  [existingItem EXCEPT
     !.name = Trim(body.name),
     !.description = Trim(body.description),
     !.price = OrElse(body.price, existingItem.price),
     !.categoryId = OrElse(body.categoryId, existingItem.categoryId),
     !.tags = OrElse(body.tags, existingItem.tags),
     !.stock = OrElse(body.stock, existingItem.stock),
     !.isActive = IF user.role = "admin"
                    THEN IfDefined(body.isActive, existingItem.isActive)
                    ELSE existingItem.isActive,
     !.updatedAt = Now]

\* a faulty update, which makes the requester the owner of the item
updatedItemTakingOwnership(existingItem, body, user) ==
  [existingItem EXCEPT
     !.name = Trim(body.name),
     !.description = Trim(body.description),
     !.price = IfDefined(body.price, existingItem.price),
     !.categoryId = IfDefined(body.categoryId, existingItem.categoryId),
     !.tags = IfDefined(body.tags, existingItem.tags),
     !.stock = IfDefined(body.stock, existingItem.stock),
     !.isActive = IF user.role = "admin"
                    THEN IfDefined(body.isActive, existingItem.isActive)
                    ELSE existingItem.isActive,
     !.userId = user.id,
     !.updatedAt = Now]

\* a faulty update, which lets every requester set isActive
updatedItemAnyRole(existingItem, body, user) ==
  [existingItem EXCEPT
     !.name = Trim(body.name),
     !.description = Trim(body.description),
     !.price = IfDefined(body.price, existingItem.price),
     !.categoryId = IfDefined(body.categoryId, existingItem.categoryId),
     !.tags = IfDefined(body.tags, existingItem.tags),
     !.stock = IfDefined(body.stock, existingItem.stock),
     !.isActive = IfDefined(body.isActive, existingItem.isActive),
     !.updatedAt = Now]

\* the object PUT /api/items/:id stores in place of existingItem
updatedItem(existingItem, body, user) ==
  [existingItem EXCEPT
     !.name = Trim(body.name),
     !.description = Trim(body.description),
     !.price = IfDefined(body.price, existingItem.price),
     !.categoryId = IfDefined(body.categoryId, existingItem.categoryId),
     !.tags = IfDefined(body.tags, existingItem.tags),
     !.stock = IfDefined(body.stock, existingItem.stock),
     !.isActive = IF user.role = "admin"
                    THEN IfDefined(body.isActive, existingItem.isActive)
                    ELSE existingItem.isActive,
     !.updatedAt = Now]

\* a faulty handler, which checks the category before the item and its owner
UpdateItemCategoryFirst(token, id, body) ==
  LET g == Gate(token, FALSE, validateIdParam(id) /\ validateItemData(body))
      user == users[AuthUser(token)]
      itemIndex == findItemById(id)
      existingItem == items[itemIndex]
      updated == updatedItem(existingItem, body, user)
      r == [NoResp EXCEPT !.op = "updateItem", !.tok = token, !.id = id]
  IN
  /\ UNCHANGED <<users, nextUserId, categories, nextCategoryId, nextId, regs, logins>>
  /\ IF g.status # 0
       THEN /\ resp' = Answer(r, g)
            /\ UNCHANGED items
     ELSE IF invalidCategory(body.categoryId)
       THEN /\ resp' = [r EXCEPT !.status = 400, !.why = "category", !.user = g.user]
            /\ UNCHANGED items
     ELSE IF itemIndex = 0
       THEN /\ resp' = [r EXCEPT !.status = 404, !.why = "notFound", !.user = g.user]
            /\ UNCHANGED items
     ELSE IF notOwnerNorAdmin(existingItem, user)
       THEN /\ resp' = [r EXCEPT !.status = 403, !.why = "owner", !.user = g.user]
            /\ UNCHANGED items
     ELSE /\ items' = [items EXCEPT ![itemIndex] = updated]
          /\ resp' = [r EXCEPT !.status = 200, !.why = "ok", !.user = g.user,
                               !.views = itemUsers(<<updated>>)]

\* PUT /api/items/:id
UpdateItem(token, id, body) ==
  LET g == Gate(token, FALSE, validateIdParam(id) /\ validateItemData(body))
      user == users[AuthUser(token)]
      itemIndex == findItemById(id)
      existingItem == items[itemIndex]
      updated == updatedItem(existingItem, body, user)
      r == [NoResp EXCEPT !.op = "updateItem", !.tok = token, !.id = id]
  IN
  /\ UNCHANGED <<users, nextUserId, categories, nextCategoryId, nextId, regs, logins>>
  /\ IF g.status # 0
       THEN /\ resp' = Answer(r, g)
            /\ UNCHANGED items
     ELSE IF itemIndex = 0
       THEN /\ resp' = [r EXCEPT !.status = 404, !.why = "notFound", !.user = g.user]
            /\ UNCHANGED items
     ELSE IF notOwnerNorAdmin(existingItem, user)
       THEN /\ resp' = [r EXCEPT !.status = 403, !.why = "owner", !.user = g.user]
            /\ UNCHANGED items
     ELSE IF invalidCategory(body.categoryId)
       THEN /\ resp' = [r EXCEPT !.status = 400, !.why = "category", !.user = g.user]
            /\ UNCHANGED items
     ELSE /\ items' = [items EXCEPT ![itemIndex] = updated]
          /\ resp' = [r EXCEPT !.status = 200, !.why = "ok", !.user = g.user,
                               !.views = itemUsers(<<updated>>)]

\* DELETE /api/items/:id
DeleteItem(token, id) ==
  LET g == Gate(token, FALSE, validateIdParam(id))
      user == users[AuthUser(token)]
      itemIndex == findItemById(id)
      existingItem == items[itemIndex]
      r == [NoResp EXCEPT !.op = "deleteItem", !.tok = token, !.id = id]
  IN
  /\ UNCHANGED <<users, nextUserId, categories, nextCategoryId, nextId, regs, logins>>
  /\ IF g.status # 0
       THEN /\ resp' = Answer(r, g)
            /\ UNCHANGED items
     ELSE IF itemIndex = 0
       THEN /\ resp' = [r EXCEPT !.status = 404, !.why = "notFound", !.user = g.user]
            /\ UNCHANGED items
     ELSE IF notOwnerNorAdmin(existingItem, user)
       THEN /\ resp' = [r EXCEPT !.status = 403, !.why = "owner", !.user = g.user]
            /\ UNCHANGED items
     ELSE /\ items' = splice(items, itemIndex)
          /\ resp' = [r EXCEPT !.status = 200, !.why = "ok", !.user = g.user]

-----------------------------------------------------------------------------
(* The bulk endpoints.  Express tries the routes of a method in the order  *)
(* of their declaration and runs the first whose path matches; a path      *)
(* below /api/items is given by its last segment ("" for /api/items).      *)

BulkMax == 50

\* the POST and the DELETE routes below /api/items, in that order
postRoutes == <<"", "bulk">>

deleteRoutes == <<":id", "bulk">>

\* `:id` matches every non-empty segment
routeMatches(route, segment) ==
  IF route = ":id" THEN segment # "" ELSE route = segment

firstRoute(routes, segment) ==
  LET P(route) == routeMatches(route, segment) IN routes[findIndex(routes, P)]

\* the validators of POST /api/items/bulk
validateBulkCreate(itemsToCreate) ==
  /\ Len(itemsToCreate) >= 1 /\ Len(itemsToCreate) <= BulkMax
  /\ \A i \in 1..Len(itemsToCreate) : validateItemData(itemsToCreate[i])

\* the validators of DELETE /api/items/bulk
validateBulkDelete(itemIds) ==
  /\ Len(itemIds) >= 1 /\ Len(itemIds) <= BulkMax
  /\ \A i \in 1..Len(itemIds) : itemIds[i] >= 1

\* a faulty loop, which stops at the first draft it cannot create
RECURSIVE bulkCreateUntilError(_, _, _, _)
bulkCreateUntilError(itemsToCreate, i, userId, acc) ==
  IF i > Len(itemsToCreate) THEN acc
  ELSE IF invalidCategory(itemsToCreate[i].categoryId)
    THEN [acc EXCEPT !.errors = Append(@, <<"Item", i, "Invalid category ID">>)]
  ELSE LET itemData == itemsToCreate[i]
           newItem == [id |-> acc.nextId, name |-> Trim(itemData.name),
                       description |-> Trim(itemData.description),
                       price |-> OrElse(itemData.price, 0),
                       categoryId |-> OrElse(itemData.categoryId, Null),
                       userId |-> userId,
                       tags |-> OrElse(itemData.tags, <<>>),
                       stock |-> OrElse(itemData.stock, 0),
                       createdAt |-> Now, updatedAt |-> Now,
                       isActive |-> TRUE]
       IN bulkCreateUntilError(itemsToCreate, i + 1, userId,
                               [acc EXCEPT !.nextId = @ + 1,
                                           !.items = Append(@, newItem),
                                           !.created = Append(@, newItem)])

\* the loop of POST /api/items/bulk from draft i on; acc holds items, nextId,
\* createdItems and errors
RECURSIVE bulkCreate(_, _, _, _)
bulkCreate(itemsToCreate, i, userId, acc) ==
  IF i > Len(itemsToCreate) THEN acc
  ELSE IF invalidCategory(itemsToCreate[i].categoryId)
    THEN bulkCreate(itemsToCreate, i + 1, userId,
                    [acc EXCEPT !.errors = Append(@, <<"Item", i, "Invalid category ID">>)])
  ELSE LET itemData == itemsToCreate[i]
           newItem == [id |-> acc.nextId, name |-> Trim(itemData.name),
                       description |-> Trim(itemData.description),
                       price |-> OrElse(itemData.price, 0),
                       categoryId |-> OrElse(itemData.categoryId, Null),
                       userId |-> userId,
                       tags |-> OrElse(itemData.tags, <<>>),
                       stock |-> OrElse(itemData.stock, 0),
                       createdAt |-> Now, updatedAt |-> Now,
                       isActive |-> TRUE]
       IN bulkCreate(itemsToCreate, i + 1, userId,
                     [acc EXCEPT !.nextId = @ + 1,
                                 !.items = Append(@, newItem),
                                 !.created = Append(@, newItem)])

\* POST /api/items/bulk
CreateItemsBulk(token, itemsToCreate) ==
  LET g == Gate(token, FALSE, validateBulkCreate(itemsToCreate))
      r == [NoResp EXCEPT !.op = "createItemsBulk", !.tok = token,
                          !.list = itemsToCreate]
      done == bulkCreate(itemsToCreate, 1, g.user,
                         [items |-> items, nextId |-> nextId,
                          created |-> <<>>, errors |-> <<>>])
  IN
  /\ firstRoute(postRoutes, "bulk") = "bulk"
  /\ UNCHANGED <<users, nextUserId, categories, nextCategoryId, regs, logins>>
  /\ IF g.status # 0
       THEN /\ resp' = Answer(r, g)
            /\ UNCHANGED <<items, nextId>>
     ELSE /\ done.nextId <= MaxBulkId + 1
          /\ items' = done.items
          /\ nextId' = done.nextId
          /\ resp' = [r EXCEPT !.status = 201, !.why = "created", !.user = g.user,
                               !.created = done.created, !.errors = done.errors]

\* the loop of DELETE /api/items/bulk from the k-th id on; acc holds items,
\* deletedItems and errors
RECURSIVE bulkDelete(_, _, _, _)
bulkDelete(itemIds, k, user, acc) ==
  IF k > Len(itemIds) THEN acc
  ELSE LET itemId == itemIds[k]
           P(item) == item.id = itemId
           itemIndex == findIndex(acc.items, P)
       IN IF itemIndex = 0
            THEN bulkDelete(itemIds, k + 1, user,
                            [acc EXCEPT !.errors = Append(@, <<"not found", itemId>>)])
          ELSE IF notOwnerNorAdmin(acc.items[itemIndex], user)
            THEN bulkDelete(itemIds, k + 1, user,
                            [acc EXCEPT !.errors = Append(@, <<"No permission", itemId>>)])
          ELSE bulkDelete(itemIds, k + 1, user,
                          [acc EXCEPT !.items = splice(@, itemIndex),
                                      !.deleted = Append(@, acc.items[itemIndex])])

\* DELETE /api/items/bulk with the body {itemIds}.  When the first route that
\* matches is DELETE /api/items/:id, the request is one for the item whose
\* id is the word `bulk`, which param('id').isInt({ min: 1 }) rejects.
DeleteItemsBulk(token, itemIds) ==
  LET route == firstRoute(deleteRoutes, "bulk")
      g == Gate(token, FALSE, IF route = ":id" THEN FALSE
                              ELSE validateBulkDelete(itemIds))
      r == [NoResp EXCEPT !.op = "deleteItemsBulk", !.tok = token, !.list = itemIds]
      done == bulkDelete(itemIds, 1, users[AuthUser(token)],
                         [items |-> items, deleted |-> <<>>, errors |-> <<>>])
  IN
  /\ UNCHANGED <<users, nextUserId, categories, nextCategoryId, nextId, regs, logins>>
  /\ IF g.status # 0
       THEN /\ resp' = Answer(r, g)
            /\ UNCHANGED items
     ELSE /\ items' = done.items
          /\ resp' = [r EXCEPT !.status = 200, !.why = "ok", !.user = g.user,
                               !.deleted = done.deleted, !.errors = done.errors]

-----------------------------------------------------------------------------
(* GET /api/items.  A parameter of the query string is a JSON value: what  *)
(* parseInt, parseFloat or === 'true' makes of the string that was given,  *)
(* or undefined.  A parameter that is given is a non-empty string, which   *)
(* is truthy whatever it parses to.                                        *)

allowedSorts == {"id", "name", "price", "createdAt", "updatedAt"}

\* the query checks of GET /api/items; every parameter is optional
validateItemsQuery(q) ==
  /\ q.page.type = "number" => q.page.val >= 1
  /\ q.limit.type = "number" => q.limit.val >= 1 /\ q.limit.val <= MaxLimit
  /\ q.category.type = "number" => q.category.val >= 1
  /\ q.minPrice.type = "number" => q.minPrice.val >= 0
  /\ q.maxPrice.type = "number" => q.maxPrice.val >= 0
  /\ q.sortBy \in allowedSorts \cup {""}
  /\ q.sortOrder \in {"asc", "desc", ""}

\* Array.prototype.map(tag => tag.trim())
RECURSIVE mapTrim(_)
mapTrim(arr) ==
  IF arr = <<>> THEN <<>> ELSE <<Trim(Head(arr))>> \o mapTrim(Tail(arr))

\* A numeric parameter is a number when its string is one and a string
\* otherwise; `active` is the string given; `tags` is the array of the pieces
\* between its commas.  A filter is set when its parameter is a non-empty
\* string, whatever it parses to; `active` is set whenever it is given.
getFilterParams(q) ==
  [categoryId |-> q.category, minPrice |-> q.minPrice, maxPrice |-> q.maxPrice,
   tags |-> IF q.tags.type = "array" /\ q.tags.val # <<"">>
              THEN JsonArray(mapTrim(q.tags.val)) ELSE JsonUndefined,
   userId |-> IF q.userId.type = "number" THEN q.userId
              ELSE IF q.userId.type = "string" /\ q.userId.val # "" THEN JsonNaN
              ELSE JsonUndefined,
   active |-> IF q.active.type = "undefined" THEN JsonUndefined
              ELSE JsonBool(q.active = JsonString("true"))]

getSortParams(q) ==
  [sortBy |-> IF q.sortBy \in allowedSorts THEN q.sortBy ELSE "id",
   sortOrder |-> IF q.sortOrder = "desc" THEN "desc" ELSE "asc"]

\* a filter value in the condition of an `if`: undefined, NaN and 0 are falsy
Truthy(json) == json.type = "number" /\ json.val # 0

\* a faulty match, which asks for every requested tag
everyTagMatches(filterTags, itemTags) ==
  \A i \in 1..Len(filterTags) : \E j \in 1..Len(itemTags) :
    toLowerCase(itemTags[j]) = toLowerCase(filterTags[i])

\* Array.prototype.some over two arrays of tags: some tag of the first equals
\* some tag of the second when both are lower-cased
someTagMatches(filterTags, itemTags) ==
  \E i \in 1..Len(filterTags) : \E j \in 1..Len(itemTags) :
    toLowerCase(itemTags[j]) = toLowerCase(filterTags[i])

\* the callback of items.filter
passesFilters(item, filters) ==
  /\ ~(~item.isActive /\ filters.active # JsonBool(FALSE))
  /\ ~(Truthy(filters.categoryId) /\ item.categoryId # filters.categoryId.val)
  /\ ~(Truthy(filters.userId) /\ item.userId # filters.userId.val)
  /\ ~(Truthy(filters.minPrice) /\ item.price < filters.minPrice.val)
  /\ ~(Truthy(filters.maxPrice) /\ item.price > filters.maxPrice.val)
  /\ ~(filters.active.type # "undefined" /\ item.isActive # filters.active.val)
  /\ ~(/\ filters.tags.type = "array" /\ Len(filters.tags.val) > 0
       /\ ~someTagMatches(filters.tags.val, item.tags))

\* Array.prototype.filter
RECURSIVE filter(_, _)
filter(arr, filters) ==
  IF arr = <<>> THEN <<>>
  ELSE IF passesFilters(Head(arr), filters)
    THEN <<Head(arr)>> \o filter(Tail(arr), filters)
    ELSE filter(Tail(arr), filters)

\* `typeof aValue === 'string'`: of the keys a sort is made on, name holds
\* strings, id and price numbers, createdAt and updatedAt dates
isStringKey(sortBy) == sortBy = "name"

\* the value of a sort key as < and > compare it: a number as it is, a date
\* by its time, a string by its code units
comparable(value, sortBy) == IF isStringKey(sortBy) THEN codeUnitRank(value) ELSE value

\* a faulty callback, which compares strings as they are
compareItemsCaseSensitive(a, b, sort) ==
  LET aValue == comparable(a[sort.sortBy], sort.sortBy)
      bValue == comparable(b[sort.sortBy], sort.sortBy)
  IN IF sort.sortOrder = "desc"
       THEN IF aValue > bValue THEN -1 ELSE IF aValue < bValue THEN 1 ELSE 0
       ELSE IF aValue < bValue THEN -1 ELSE IF aValue > bValue THEN 1 ELSE 0

\* the callback of filteredItems.sort: negative, zero or positive
compareItems(a, b, sort) ==
  LET lower(value) == IF isStringKey(sort.sortBy) THEN toLowerCase(value) ELSE value
      aValue == comparable(lower(a[sort.sortBy]), sort.sortBy)
      bValue == comparable(lower(b[sort.sortBy]), sort.sortBy)
  IN IF sort.sortOrder = "desc"
       THEN IF aValue > bValue THEN -1 ELSE IF aValue < bValue THEN 1 ELSE 0
       ELSE IF aValue < bValue THEN -1 ELSE IF aValue > bValue THEN 1 ELSE 0

\* Array.prototype.sort, which is stable: x goes behind every element that
\* does not compare greater than it
RECURSIVE insertSorted(_, _, _)
insertSorted(x, sorted, sort) ==
  IF sorted = <<>> THEN <<x>>
  ELSE IF compareItems(Head(sorted), x, sort) <= 0
    THEN <<Head(sorted)>> \o insertSorted(x, Tail(sorted), sort)
    ELSE <<x>> \o sorted

RECURSIVE sortItems(_, _)
sortItems(arr, sort) ==
  IF arr = <<>> THEN <<>>
  ELSE insertSorted(arr[Len(arr)], sortItems(SubSeq(arr, 1, Len(arr) - 1), sort), sort)

\* Math.ceil(totalItems / limit)
ceilDiv(totalItems, limit) == (totalItems + limit - 1) \div limit

\* the body GET /api/items answers a query that passes validation
listItems(q) ==
  LET p == getPaginationParams(q)
      filteredItems == sortItems(filter(items, getFilterParams(q)), getSortParams(q))
      totalItems == Len(filteredItems)
  IN [data |-> slice(filteredItems, p.skip, p.skip + p.limit),
      pagination |-> [currentPage |-> p.page,
                      totalPages |-> ceilDiv(totalItems, p.limit),
                      totalItems |-> totalItems,
                      itemsPerPage |-> p.limit,
                      hasNextPage |-> (p.skip + p.limit) < totalItems,
                      hasPreviousPage |-> p.page > 1]]

\* the null a view is when the record it is looked up from is absent
NullView == [null |-> TRUE]

\* `category ? { id: category.id, name: category.name } : null`
categoryView(categoryId) ==
  LET category == findCategoryById(categoryId) IN
  IF category = 0 THEN NullView
  ELSE [id |-> categories[category].id, name |-> categories[category].name]

\* `user ? { id: user.id, username: user.username } : null`
userView(userId) ==
  LET user == findUserById(userId) IN
  IF user = 0 THEN NullView ELSE itemUser(users[user])

\* the category and the user paginatedItems.map attaches to each item
enrich(arr) ==
  [k \in 1..Len(arr) |-> [category |-> categoryView(arr[k].categoryId),
                          user |-> userView(arr[k].userId)]]

\* a faulty handler, which sorts the store itself
ListItemsSortingStore(q) ==
  LET r == [NoResp EXCEPT !.op = "listItems", !.query = q]
  IN
  /\ resp' = IF ~validateItemsQuery(q)
               THEN [r EXCEPT !.status = 400, !.why = "validation"]
               ELSE LET body == listItems(q) IN
                    [r EXCEPT !.status = 200, !.why = "ok", !.data = body.data,
                              !.pagination = body.pagination,
                              !.views = itemUsers(body.data),
                              !.enriched = enrich(body.data)]
  /\ items' = IF ~validateItemsQuery(q) THEN items
              ELSE sortItems(items, getSortParams(q))
  /\ UNCHANGED <<users, nextUserId, categories, nextCategoryId, nextId,
                 regs, logins>>

\* GET /api/items: no token is asked for
ListItems(q) ==
  LET r == [NoResp EXCEPT !.op = "listItems", !.query = q]
  IN
  /\ resp' = IF ~validateItemsQuery(q)
               THEN [r EXCEPT !.status = 400, !.why = "validation"]
               ELSE LET body == listItems(q) IN
                    [r EXCEPT !.status = 200, !.why = "ok", !.data = body.data,
                              !.pagination = body.pagination,
                              !.views = itemUsers(body.data),
                              !.enriched = enrich(body.data)]
  /\ UNCHANGED <<users, nextUserId, categories, nextCategoryId, items, nextId,
                 regs, logins>>

\* GET /api/items/:id: no token is asked for
GetItem(id) ==
  LET r == [NoResp EXCEPT !.op = "getItem", !.id = id]
      itemIndex == findItemById(id)
      user == findUserById(items[itemIndex].userId)
  IN
  /\ resp' = IF ~validateIdParam(id)
               THEN [r EXCEPT !.status = 400, !.why = "validation"]
             ELSE IF itemIndex = 0
               THEN [r EXCEPT !.status = 404, !.why = "notFound"]
             ELSE [r EXCEPT !.status = 200, !.why = "ok",
                            !.data = <<items[itemIndex]>>,
                            !.views = IF user = 0 THEN <<>>
                                      ELSE <<itemUserDetail(users[user])>>,
                            !.enriched =
                              <<[category |-> categoryView(items[itemIndex].categoryId),
                                 user |-> IF user = 0 THEN NullView
                                          ELSE itemUserDetail(users[user])]>>]
  /\ UNCHANGED <<users, nextUserId, categories, nextCategoryId, items, nextId,
                 regs, logins>>

-----------------------------------------------------------------------------
(* The inputs the requests draw.                                           *)

\* the last body has a password without an upper-case letter or a digit
RegisterBodies ==
  [username : {"bob", "eve"},
   email    : {"bob@example.com", "eve@example.com", "Bob@Example.com"},
   password : {"Passw0rd1"}]
  \cup {[username |-> "bob", email |-> "bob@example.com", password |-> "password"]}

\* the last body has no password
LoginBodies ==
  [username : {"bob", " bob"}, password : {"Passw0rd1", "password"}]
  \cup {[username |-> "bob", password |-> ""]}

Tokens == {NoToken, BadToken} \cup {generateToken(n) : n \in 1..(MaxUsers + 1)}

IsActiveInputs == {JsonBool(TRUE), JsonBool(FALSE), JsonUndefined}

-----------------------------------------------------------------------------
(* The specification of the credential endpoints: registrations and        *)
(* logins in flight together with status updates.                          *)

Init ==
  /\ users = InitUsers
  /\ nextUserId = 3
  /\ categories = InitCategories
  /\ nextCategoryId = 4
  /\ items = InitItems
  /\ nextId = 3
  /\ regs = EmptyBag
  /\ logins = EmptyBag
  /\ resp = NoResp

NextAuth ==
  \/ \E raw \in RegisterBodies : RegisterStart(raw)
  \/ \E body \in BagToSet(regs) : RegisterFinish(body)
  \/ \E raw \in LoginBodies : LoginStart(raw)
  \/ \E l \in BagToSet(logins) : LoginFinish(l)
  \/ \E id \in 1..MaxUsers, isActive \in BOOLEAN :
       UpdateUserStatus(generateToken(1), id, JsonBool(isActive))

SpecAuth == Init /\ [][NextAuth]_vars

-----------------------------------------------------------------------------
(* The specification of the gated endpoints: /auth/me and the admin-only   *)
(* endpoints, under every kind of token.                                   *)

CategoryBodies == [name : {"Toys", "ELECTRONICS", ""}]

UsersQueries ==
  [page : {JsonUndefined}, limit : {JsonUndefined},
   role : {"", "admin", "root"}, active : {"", "false"}]

NextAdmin ==
  \/ \E token \in Tokens : AuthMe(token)
  \/ \E token \in Tokens, raw \in CategoryBodies : CreateCategory(token, raw)
  \/ \E token \in Tokens, q \in UsersQueries : GetUsers(token, q)
  \/ \E token \in Tokens, id \in 0..MaxUsers : GetUserById(token, id)
  \/ \E token \in Tokens : GetStats(token)
  \/ \E token \in Tokens, id \in 0..MaxUsers, json \in IsActiveInputs :
       UpdateUserStatus(token, id, json)

SpecAdmin == Init /\ [][NextAdmin]_vars

-----------------------------------------------------------------------------
(* The specification of the items endpoints, with one registration so that *)
(* a second user without the admin role owns and requests items.           *)

\* bodies without a category and with one the store does not hold
ValidItemBodies ==
  [name        : {"Tablet"},
   description : {"A tablet"},
   price       : {JsonNum(50)},
   categoryId  : {JsonUndefined, JsonNum(9)},
   tags        : {JsonUndefined},
   stock       : {JsonUndefined},
   isActive    : {JsonUndefined}]

\* and a body without a name
ItemBodies ==
  ValidItemBodies \cup {[b EXCEPT !.name = ""] : b \in {c \in ValidItemBodies :
                                                        c.categoryId = JsonUndefined}}

\* the tokens of the admin, of user1 and of the user the registration creates;
\* until it has, the third names no user and the middleware rejects it
ItemTokens == {generateToken(1), generateToken(2), generateToken(3)}

EveBody ==
  [username |-> "eve", email |-> "eve@example.com", password |-> "Passw0rd1"]

Next ==
  \/ \E token \in ItemTokens, body \in ItemBodies : CreateItem(token, body)
  \/ \E token \in ItemTokens, id \in 0..MaxItems, body \in ItemBodies :
       UpdateItem(token, id, body)
  \/ \E token \in ItemTokens, id \in 0..MaxItems : DeleteItem(token, id)
  \/ Len(users) = Len(InitUsers) /\ RegisterStart(EveBody)
  \/ \E body \in BagToSet(regs) : RegisterFinish(body)

Spec == Init /\ [][Next]_vars

-----------------------------------------------------------------------------
(* The specification of the list endpoint: a store the items endpoints can *)
(* have built (ids ascending, as push and splice keep them), and list      *)
(* requests on it.                                                         *)

\* the price and isActive of the items of such a store
StoreVariants ==
  {[price |-> 0, isActive |-> TRUE], [price |-> 50, isActive |-> TRUE],
   [price |-> 50, isActive |-> FALSE]}

StoreItem(id, price, isActive) ==
  [id |-> id, name |-> "Tablet", description |-> "A tablet", price |-> price,
   categoryId |-> Null, userId |-> 1, tags |-> <<>>, stock |-> 0,
   createdAt |-> 1, updatedAt |-> 1, isActive |-> isActive]

\* every store of at most MaxStore items whose ids ascend from 1 without gaps
\* or with items deleted
RECURSIVE StoresFrom(_)
StoresFrom(id) ==
  IF id > MaxStore THEN {<<>>}
  ELSE LET rest == StoresFrom(id + 1) IN
       rest \cup {<<StoreItem(id, v.price, v.isActive)>> \o r :
                    v \in StoreVariants, r \in rest}

\* minPrice and maxPrice: neither, one, or both with minPrice <= maxPrice
PriceRanges ==
  {[min |-> JsonUndefined, max |-> JsonUndefined],
   [min |-> JsonNum(50), max |-> JsonUndefined],
   [min |-> JsonNum(0), max |-> JsonNum(0)],
   [min |-> JsonNum(0), max |-> JsonNum(50)],
   [min |-> JsonNum(50), max |-> JsonNum(50)]}

Sorts == {[sortBy |-> "", sortOrder |-> ""], [sortBy |-> "price", sortOrder |-> "desc"]}

Queries ==
  {[NoQuery EXCEPT !.page = page, !.limit = limit, !.minPrice = range.min,
                   !.maxPrice = range.max, !.sortBy = sort.sortBy,
                   !.sortOrder = sort.sortOrder] :
     page \in {JsonUndefined} \cup {JsonNum(n) : n \in 0..MaxStore},
     limit \in {JsonUndefined, JsonNum(2)},
     range \in PriceRanges,
     sort \in Sorts}

InitQuery ==
  /\ users = InitUsers
  /\ nextUserId = Len(InitUsers) + 1
  /\ categories = InitCategories
  /\ nextCategoryId = Len(InitCategories) + 1
  /\ items \in StoresFrom(1)
  /\ nextId = MaxStore + 1
  /\ regs = EmptyBag
  /\ logins = EmptyBag
  /\ resp = NoResp

NextQuery == \E q \in Queries : ListItems(q)

SpecQuery == InitQuery /\ [][NextQuery]_vars

-----------------------------------------------------------------------------
(* The specification of the pagination parameters of the list endpoint:    *)
(* requests that give a page and a limit, inside and outside the ranges    *)
(* the validators allow, on the stores of SpecQuery.                       *)

PageQueries ==
  {[NoQuery EXCEPT !.page = page, !.limit = limit] :
     page \in {JsonUndefined} \cup {JsonNum(n) : n \in 0..MaxStore},
     limit \in {JsonUndefined} \cup {JsonNum(n) : n \in {0, 1, 2, MaxLimit, MaxLimit + 1}}}

NextPage == \E q \in PageQueries : ListItems(q)

SpecPage == InitQuery /\ [][NextPage]_vars

-----------------------------------------------------------------------------
(* The specification of the endpoints that answer with user objects: the   *)
(* credential endpoints, the users endpoints as the admin asks them, and   *)
(* the items endpoints.                                                    *)

ViewRegisterBody ==
  [username |-> "bob", email |-> "bob@example.com", password |-> "Passw0rd1"]

ViewLoginBodies ==
  {[username |-> "admin", password |-> "password"],
   [username |-> "bob", password |-> "Passw0rd1"]}

ViewUsersQueries ==
  [page : {JsonUndefined}, limit : {JsonUndefined, JsonNum(1)},
   role : {"", "user"}, active : {"", "true"}]

ViewItemsQueries ==
  {NoQuery, [NoQuery EXCEPT !.limit = JsonNum(1)], [NoQuery EXCEPT !.sortBy = "price"]}

ViewItemBody ==
  [name |-> "Tablet", description |-> "A tablet", price |-> JsonNum(50),
   categoryId |-> JsonUndefined, tags |-> JsonUndefined, stock |-> JsonUndefined,
   isActive |-> JsonUndefined]

NextViews ==
  \/ RegisterStart(ViewRegisterBody)
  \/ \E body \in BagToSet(regs) : RegisterFinish(body)
  \/ \E raw \in ViewLoginBodies : LoginStart(raw)
  \/ \E l \in BagToSet(logins) : LoginFinish(l)
  \/ \E token \in {NoToken, generateToken(1), generateToken(3)} : AuthMe(token)
  \/ \E q \in ViewUsersQueries : GetUsers(generateToken(1), q)
  \/ \E id \in 1..MaxUsers : GetUserById(generateToken(1), id)
  \/ \E isActive \in BOOLEAN :
       UpdateUserStatus(generateToken(1), 2, JsonBool(isActive))
  \/ \E q \in ViewItemsQueries : ListItems(q)
  \/ \E id \in 0..MaxItems : GetItem(id)
  \/ CreateItem(generateToken(2), ViewItemBody)
  \/ \E id \in 1..MaxItems : UpdateItem(generateToken(2), id, ViewItemBody)

SpecViews == Init /\ [][NextViews]_vars

-----------------------------------------------------------------------------
(* The specification of the updates of the seeded items by the admin and   *)
(* by user1, whose bodies give or omit each optional field.                *)

UpdateBodies ==
  [name        : {"Tablet"},
   description : {"A tablet"},
   price       : {JsonUndefined, JsonNum(0)},
   categoryId  : {JsonUndefined, JsonNum(2)},
   tags        : {JsonUndefined, JsonArray(<<"sale">>)},
   stock       : {JsonUndefined, JsonNum(0)},
   isActive    : {JsonUndefined}]

UpdateTokens == {generateToken(1), generateToken(2)}

NextUpdate ==
  \E token \in UpdateTokens, id \in 0..MaxItems, body \in UpdateBodies :
    UpdateItem(token, id, body)

SpecUpdate == Init /\ [][NextUpdate]_vars

-----------------------------------------------------------------------------
(* The specification of the bulk endpoints, after single deletions: bulk   *)
(* creations by the admin and by user1, bulk deletions by the admin and    *)
(* without a token.                                                        *)

BulkDrafts ==
  [name        : {"Tablet"},
   description : {"A tablet"},
   price       : {JsonNum(50)},
   categoryId  : {JsonNum(1), JsonNum(9)},
   tags        : {JsonUndefined},
   stock       : {JsonUndefined},
   isActive    : {JsonUndefined}]
  \cup {[name |-> "", description |-> "A tablet", price |-> JsonNum(50),
         categoryId |-> JsonUndefined, tags |-> JsonUndefined,
         stock |-> JsonUndefined, isActive |-> JsonUndefined]}

\* the arrays of at most n entries drawn from S
RECURSIVE SeqsUpTo(_, _)
SeqsUpTo(S, n) ==
  IF n = 0 THEN {<<>>}
  ELSE LET shorter == SeqsUpTo(S, n - 1) IN
       shorter \cup {Append(l, x) : l \in shorter, x \in S}

BulkCreateTokens == {generateToken(1), generateToken(2)}

BulkDeleteTokens == {NoToken, generateToken(1)}

BulkIds == {0, 1}

NextBulk ==
  \/ \E token \in BulkCreateTokens, itemsToCreate \in SeqsUpTo(BulkDrafts, MaxBulkLen) :
       CreateItemsBulk(token, itemsToCreate)
  \/ \E token \in BulkDeleteTokens, itemIds \in SeqsUpTo(BulkIds, MaxBulkLen) :
       DeleteItemsBulk(token, itemIds)
  \/ \E id \in 1..MaxBulkId : DeleteItem(generateToken(1), id)

SpecBulk == Init /\ [][NextBulk]_vars

-----------------------------------------------------------------------------
(* The specification of the stores: every request that writes to users,    *)
(* categories or items, with registrations in flight together.             *)

\* bodies with the category the admin creates, with a category that never
\* exists, and without a name
StoreItemBodies ==
  [name        : {"Tablet"},
   description : {"A tablet"},
   price       : {JsonNum(50)},
   categoryId  : {JsonNum(4), JsonNum(9)},
   tags        : {JsonUndefined},
   stock       : {JsonUndefined},
   isActive    : {JsonUndefined}]
  \cup {[name |-> "", description |-> "A tablet", price |-> JsonNum(50),
         categoryId |-> JsonUndefined, tags |-> JsonUndefined,
         stock |-> JsonUndefined, isActive |-> JsonUndefined]}

\* a bulk request of one draft in a category that never exists and one in
\* the category the admin creates
StoreBulks ==
  {<<b, c>> : b \in {d \in StoreItemBodies : d.categoryId = JsonNum(9)},
              c \in {d \in StoreItemBodies : d.categoryId = JsonNum(4)}}

\* the tokens of user1 and of the first user a registration creates
StoreTokens == {generateToken(2), generateToken(3)}

NextStore ==
  \/ RegisterStart(EveBody)
  \/ \E body \in BagToSet(regs) : RegisterFinish(body)
  \/ \E token \in {generateToken(1), generateToken(2)} :
       CreateCategory(token, [name |-> "Toys"])
  \/ \E token \in StoreTokens, body \in StoreItemBodies : CreateItem(token, body)
  \/ \E token \in StoreTokens, itemsToCreate \in StoreBulks :
       CreateItemsBulk(token, itemsToCreate)
  \/ \E token \in {generateToken(1), generateToken(2)}, id \in 1..MaxItems,
        body \in StoreItemBodies :
       UpdateItem(token, id, body)
  \/ \E token \in StoreTokens, id \in 1..MaxItems : DeleteItem(token, id)

SpecStore == Init /\ [][NextStore]_vars

-----------------------------------------------------------------------------
(* The specification of the middleware chains of the routes that write     *)
(* items: requests with and without a token, with and without a name.      *)

StageBodies == {ViewItemBody, [ViewItemBody EXCEPT !.name = ""]}

StageTokens == {NoToken, generateToken(1), generateToken(2)}

NextStages ==
  \/ \E token \in StageTokens, body \in StageBodies : CreateItem(token, body)
  \/ \E token \in StageTokens, body \in StageBodies :
       CreateItemsBulk(token, <<body>>)
  \/ \E token \in StageTokens, id \in 0..MaxItems, body \in StageBodies :
       UpdateItem(token, id, body)

SpecStages == Init /\ [][NextStages]_vars

-----------------------------------------------------------------------------
(* The specification of the accounts: registrations, and status updates    *)
(* asked by the admin, by user1 and by a registered user.                  *)

StatusTokens == {generateToken(1), generateToken(2), generateToken(3)}

NextStatus ==
  \/ RegisterStart(EveBody)
  \/ \E body \in BagToSet(regs) : RegisterFinish(body)
  \/ \E token \in StatusTokens, id \in 1..MaxUsers, isActive \in BOOLEAN :
       UpdateUserStatus(token, id, JsonBool(isActive))

SpecStatus == Init /\ [][NextStatus]_vars

-----------------------------------------------------------------------------
(* The specification of the refusals: requests of every route that writes, *)
(* among them requests without a token, with an invalid body, for a        *)
(* missing or a foreign record, and for a name or a category that the      *)
(* store refuses.                                                          *)

\* a registration that passes validation and one whose password is too weak
ErrorRegisterBodies ==
  {EveBody, [username |-> "bob", email |-> "bob@example.com", password |-> "password"]}

\* a wrong password, and a user that does not exist
ErrorLoginBodies ==
  {[username |-> "admin", password |-> "Passw0rd1"],
   [username |-> "bob", password |-> "Passw0rd1"]}

ErrorTokens == {NoToken, generateToken(2)}

NextErrors ==
  \/ \E raw \in ErrorRegisterBodies : RegisterStart(raw)
  \/ \E body \in BagToSet(regs) : RegisterFinish(body)
  \/ \E raw \in ErrorLoginBodies : LoginStart(raw)
  \/ \E l \in BagToSet(logins) : LoginFinish(l)
  \/ \E token \in {generateToken(1), generateToken(2)}, raw \in CategoryBodies :
       CreateCategory(token, raw)
  \/ \E id \in {1, 3, MaxUsers} :
       UpdateUserStatus(generateToken(1), id, JsonBool(FALSE))
  \/ \E token \in ErrorTokens, body \in StoreItemBodies : CreateItem(token, body)
  \/ \E id \in 1..MaxItems, body \in StoreItemBodies :
       UpdateItem(generateToken(2), id, body)
  \/ \E id \in 1..MaxItems : DeleteItem(generateToken(2), id)
  \/ DeleteItemsBulk(generateToken(1), <<1>>)

SpecErrors == Init /\ [][NextErrors]_vars

-----------------------------------------------------------------------------
(* The specification of the isActive flag of the items: creations, updates *)
(* and deletions by the admin and by user1, whose bodies omit isActive or  *)
(* give it as false or as true.                                            *)

ActiveBodies ==
  {[ViewItemBody EXCEPT !.isActive = isActive] :
     isActive \in {JsonUndefined, JsonBool(FALSE), JsonBool(TRUE)}}

ActiveTokens == {generateToken(1), generateToken(2)}

NextActive ==
  \/ \E token \in ActiveTokens, body \in ActiveBodies : CreateItem(token, body)
  \/ \E body \in ActiveBodies : CreateItemsBulk(generateToken(2), <<body>>)
  \/ \E token \in ActiveTokens, id \in 1..MaxItems, body \in ActiveBodies :
       UpdateItem(token, id, body)
  \/ \E id \in 1..MaxItems : DeleteItem(generateToken(2), id)

SpecActive == Init /\ [][NextActive]_vars

-----------------------------------------------------------------------------
(* The specification of the checks of PUT /api/items/:id: updates of       *)
(* present and of deleted items by the admin, by user1, by a user who      *)
(* registers and owns no item, and without a token, whose bodies name a    *)
(* category of the store or one that is not there.                         *)

PutBodies ==
  {[ViewItemBody EXCEPT !.categoryId = JsonNum(categoryId)] : categoryId \in {1, 9}}
    \cup {[ViewItemBody EXCEPT !.name = "", !.categoryId = JsonNum(9)]}

PutTokens == {NoToken, generateToken(1), generateToken(2), generateToken(3)}

NextPut ==
  \/ RegisterStart(EveBody)
  \/ \E body \in BagToSet(regs) : RegisterFinish(body)
  \/ \E token \in PutTokens, id \in 1..MaxItems, body \in PutBodies :
       UpdateItem(token, id, body)
  \/ \E id \in 1..MaxItems : DeleteItem(generateToken(1), id)

SpecPut == Init /\ [][NextPut]_vars

-----------------------------------------------------------------------------
(* The specification of the filters of the list endpoint: stores whose     *)
(* items differ in isActive, category, owner and tags, and list requests   *)
(* that filter on these.                                                   *)

\* the isActive, categoryId, userId and tags of the items of such a store
FilterVariants ==
  {[isActive |-> TRUE,  categoryId |-> 1,    userId |-> 1, tags |-> <<"Tech">>],
   [isActive |-> TRUE,  categoryId |-> 2,    userId |-> 2, tags |-> <<"books", "Sale">>],
   [isActive |-> TRUE,  categoryId |-> Null, userId |-> 1, tags |-> <<>>],
   [isActive |-> FALSE, categoryId |-> 1,    userId |-> 2, tags |-> <<"Sale", "TECH">>],
   [isActive |-> FALSE, categoryId |-> 2,    userId |-> 1, tags |-> <<>>]}

FilterItem(id, v) ==
  [id |-> id, name |-> "Tablet", description |-> "A tablet", price |-> 50,
   categoryId |-> v.categoryId, userId |-> v.userId, tags |-> v.tags, stock |-> 0,
   createdAt |-> 1, updatedAt |-> 1, isActive |-> v.isActive]

RECURSIVE FilterStoresFrom(_)
FilterStoresFrom(id) ==
  IF id > MaxFilterStore THEN {<<>>}
  ELSE LET rest == FilterStoresFrom(id + 1) IN
       rest \cup {<<FilterItem(id, v)>> \o r : v \in FilterVariants, r \in rest}

\* ?active=, ?category=, ?userId= and ?tags= as they arrive: `yes` is a value
\* of active that is neither true nor false, `abc` a userId that is no
\* number, and the last value of tags is the empty string
FilterQueries ==
  {[NoQuery EXCEPT !.active = active, !.category = category, !.userId = userId,
                   !.tags = tags] :
     active \in {JsonUndefined, JsonString("true"), JsonString("false"),
                 JsonString("yes")},
     category \in {JsonUndefined, JsonNum(1)},
     userId \in {JsonUndefined, JsonNum(2), JsonNum(0), JsonString("abc")},
     tags \in {JsonUndefined, JsonArray(<<"tech">>), JsonArray(<<"books", " sale">>),
               JsonArray(<<"">>)}}

InitFilter ==
  /\ users = InitUsers
  /\ nextUserId = Len(InitUsers) + 1
  /\ categories = InitCategories
  /\ nextCategoryId = Len(InitCategories) + 1
  /\ items \in FilterStoresFrom(1)
  /\ nextId = MaxFilterStore + 1
  /\ regs = EmptyBag
  /\ logins = EmptyBag
  /\ resp = NoResp

NextFilter == \E q \in FilterQueries : ListItems(q)

SpecFilter == InitFilter /\ [][NextFilter]_vars

-----------------------------------------------------------------------------
(* The specification of the sort of the list endpoint: stores whose items  *)
(* carry the dates of their creation and last update as times, with names  *)
(* that differ in case and keys that tie, and list requests with every     *)
(* sortBy and sortOrder, valid or not.                                     *)

SortVariants ==
  {[name |-> "banana", price |-> 50, createdAt |-> 1, updatedAt |-> 2],
   [name |-> "Banana", price |-> 50, createdAt |-> 1, updatedAt |-> 3],
   [name |-> "apple",  price |-> 0,  createdAt |-> 2, updatedAt |-> 2],
   [name |-> "Cherry", price |-> 0,  createdAt |-> 2, updatedAt |-> 3]}

SortItem(id, v) ==
  [id |-> id, name |-> v.name, description |-> "A tablet", price |-> v.price,
   categoryId |-> Null, userId |-> 1, tags |-> <<>>, stock |-> 0,
   isActive |-> TRUE, createdAt |-> v.createdAt, updatedAt |-> v.updatedAt]

RECURSIVE SortStoresFrom(_)
SortStoresFrom(id) ==
  IF id > MaxSortStore THEN {<<>>}
  ELSE LET rest == SortStoresFrom(id + 1) IN
       rest \cup {<<SortItem(id, v)>> \o r : v \in SortVariants, r \in rest}

\* `rating` and `Name` are not among the allowed keys, `up` is no order
SortQueries ==
  {[NoQuery EXCEPT !.sortBy = sortBy, !.sortOrder = sortOrder] :
     sortBy \in allowedSorts \cup {"", "rating", "Name"},
     sortOrder \in {"", "asc", "desc", "up"}}

InitSort ==
  /\ users = InitUsers
  /\ nextUserId = Len(InitUsers) + 1
  /\ categories = InitCategories
  /\ nextCategoryId = Len(InitCategories) + 1
  /\ items \in SortStoresFrom(1)
  /\ nextId = MaxSortStore + 1
  /\ regs = EmptyBag
  /\ logins = EmptyBag
  /\ resp = NoResp

NextSort == \E q \in SortQueries : ListItems(q)

SpecSort == InitSort /\ [][NextSort]_vars

-----------------------------------------------------------------------------
(* Properties of the credential endpoints, checked under SpecAuth.         *)

\* the users a completed registration created (the seeded ones have ids 1, 2)
Registered == {users[i] : i \in {j \in 1..Len(users) : users[j].id > Len(InitUsers)}}

\* a step of POST /auth/register up to its await, on a body that passes validation
RegisterStartStep ==
  resp'.op = "register" /\ resp'.why \in {"username", "email", "await"}

\* a step of POST /auth/login up to its await, on a body that passes validation
LoginStartStep == resp'.op = "login" /\ resp'.why \in {"credentials", "await"}

\* a step of POST /auth/login after its await
LoginFinishStep == resp'.op = "login" /\ resp'.why \in {"password", "ok"}

\* C5: in every reachable state no two distinct users share a username and no
\* two distinct users share an email, whatever registrations are in flight.
C5_UniqueUsernameAndEmail ==
  \A i, j \in 1..Len(users) :
    i # j => /\ users[i].username # users[j].username
             /\ users[i].email # users[j].email

\* C6: once a registration with username U and email E has completed, a
\* registration with username U and another email, and one with email E and
\* another username, are answered 409; neither adds a user nor advances
\* nextUserId.
C6_ConflictAfterRegistration ==
  [][ RegisterStartStep =>
        LET sameName == \E u \in Registered : /\ u.username = resp'.username
                                              /\ u.email # resp'.email
            sameMail == \E u \in Registered : /\ u.email = resp'.email
                                              /\ u.username # resp'.username
        IN (sameName \/ sameMail) =>
             /\ resp'.status = 409
             /\ users' = users
             /\ nextUserId' = nextUserId ]_vars

\* a registration was answered 409 for its username although its email is
\* new, the username being that of a user an earlier registration created
C6_Witness ==
  /\ resp.op = "register" /\ resp.status = 409 /\ resp.why = "username"
  /\ \E u \in Registered : u.username = resp.username /\ u.email # resp.email
  /\ \A u \in Registered : u.email # resp.email

\* C7: a registration whose username and email were free when it was made is
\* answered 201, and a login made right after that answer with the same
\* username and password goes on to be answered 200 with a token for the id
\* the registration returned: the login finds that user, and the comparison
\* of the password with that user's hash succeeds and yields the token.
C7_RegisterThenLogin ==
  [][ /\ (resp.op = "register" /\ resp.status = 201 /\ LoginStartStep
            /\ resp'.username = resp.username /\ resp'.password = resp.password)
         => /\ resp'.status = 0
            /\ resp'.user = resp.user
            /\ BagIn([user |-> resp.user, username |-> resp.username,
                      password |-> resp.password], logins')
      /\ (LoginFinishStep
            /\ bcryptCompare(resp'.password, users[findUserById(resp'.user)].password))
         => /\ resp'.status = 200
            /\ resp'.issued = generateToken(resp'.user) ]_vars

\* C8: a login is answered 200 with a token exactly when the username names
\* a user, that user is active when the handler looks it up, and the password
\* matches that user's hash; otherwise it is answered 401 without a token.
\* No step of a login changes the users store.
C8_LoginDecision ==
  [][ /\ LoginStartStep =>
           LET known == \E i \in 1..Len(users) : users[i].username = resp'.username
               first == CHOOSE i \in 1..Len(users) :
                          /\ users[i].username = resp'.username
                          /\ \A j \in 1..(i - 1) : users[j].username # resp'.username
           IN IF known /\ users[first].isActive
                THEN /\ resp'.status = 0
                     /\ BagIn([user |-> users[first].id, username |-> resp'.username,
                               password |-> resp'.password], logins')
                ELSE /\ resp'.status = 401
                     /\ resp'.issued = NoToken
                     /\ logins' = logins
      /\ LoginFinishStep =>
           LET u == CHOOSE v \in {users[i] : i \in 1..Len(users)} : v.id = resp'.user
           IN IF u.password = bcryptHash(resp'.password)
                THEN resp'.status = 200 /\ resp'.issued = generateToken(u.id)
                ELSE resp'.status = 401 /\ resp'.issued = NoToken
      /\ resp'.op = "login" => users' = users /\ nextUserId' = nextUserId
      /\ (resp'.op = "login" /\ resp'.status = 200) => LoginFinishStep ]_vars

\* a login of a registered user was answered 200 with a token for that user
\* while another account is deactivated
C8_Witness ==
  /\ resp.op = "login" /\ resp.status = 200
  /\ resp.issued = generateToken(resp.user)
  /\ \E u \in Registered : u.id = resp.user /\ u.username = resp.username
  /\ \E i \in 1..Len(users) : ~users[i].isActive

-----------------------------------------------------------------------------
(* Properties of the middleware and the admin-only endpoints, checked      *)
(* under SpecAdmin.                                                        *)

StoresUnchanged ==
  UNCHANGED <<users, nextUserId, categories, nextCategoryId, items, nextId>>

\* the user a token's userId names in the store before the request, if any
TokenUsers(token) ==
  {users[i] : i \in {j \in 1..Len(users) : users[j].id = token.userId}}

AuthenticatedOps ==
  {"me", "createCategory", "getUsers", "getUserById", "getStats", "putUserStatus"}

AdminOps == AuthenticatedOps \ {"me"}

\* C2: the auth middleware answers 401 when no token is given; 403 when the
\* token fails verification, names no user of the store or names a user who
\* is not active; otherwise it attaches that user and runs the next stage.
\* A request it rejects, and a request whose chain is the middleware alone
\* (GET /auth/me), leaves the stores as they were.
C2_AuthMiddleware ==
  [][ resp'.op \in AuthenticatedOps =>
        LET t == resp'.tok IN
        /\ t.kind = "none" =>
             resp'.status = 401 /\ resp'.why = "auth" /\ resp'.user = 0
        /\ (t.kind # "none" /\ (\/ t.kind # "jwt"
                                \/ TokenUsers(t) = {}
                                \/ \E u \in TokenUsers(t) : ~u.isActive)) =>
             resp'.status = 403 /\ resp'.why = "auth" /\ resp'.user = 0
        /\ (t.kind = "jwt" /\ \E u \in TokenUsers(t) : u.isActive) =>
             resp'.why # "auth" /\ resp'.user = t.userId
        /\ (resp'.why = "auth" \/ resp'.op = "me") => StoresUnchanged ]_vars

\* a token that verifies and names a user of the store was answered 403
\* because that user has been deactivated
C2_Witness ==
  /\ resp.op \in AuthenticatedOps /\ resp.status = 403 /\ resp.why = "auth"
  /\ resp.tok.kind = "jwt"
  /\ \E u \in TokenUsers(resp.tok) : ~u.isActive

\* C3: on the admin-only endpoints an authenticated request passes the
\* authorization stage exactly when the requester's role is admin; any other
\* requester is answered 403, no category is created and no user's isActive
\* changes.
C3_AdminOnly ==
  [][ (resp'.op \in AdminOps /\ resp'.why # "auth") =>
        \A u \in TokenUsers(resp'.tok) :
          IF u.role = "admin"
            THEN resp'.why # "admin"
            ELSE /\ resp'.status = 403 /\ resp'.why = "admin"
                 /\ categories' = categories /\ nextCategoryId' = nextCategoryId
                 /\ users' = users ]_vars

\* a non-admin was refused the creation of a category, in a store to which
\* an admin has added one
C3_Witness ==
  /\ resp.op = "createCategory" /\ resp.status = 403 /\ resp.why = "admin"
  /\ \E u \in TokenUsers(resp.tok) : u.role = "user" /\ u.isActive
  /\ Len(categories) > Len(InitCategories)

\* C4: an admin's PUT /api/users/:id/status with isActive false and :id the
\* admin's own id is answered 400, not 403; the users store is unchanged and
\* the admin is still active.
C4_NoSelfDeactivation ==
  [][ (/\ resp'.op = "putUserStatus"
       /\ resp'.tok.kind = "jwt"
       /\ resp'.isActive = JsonBool(FALSE)
       /\ \E u \in TokenUsers(resp'.tok) :
            u.role = "admin" /\ u.isActive /\ u.id = resp'.id) =>
        /\ resp'.status = 400
        /\ users' = users
        /\ \A u \in TokenUsers(resp'.tok) :
             \E i \in 1..Len(users') : users'[i].id = u.id /\ users'[i].isActive ]_vars

\* the admin asked for its own deactivation and was answered 400, after
\* having deactivated another user
C4_Witness ==
  /\ resp.op = "putUserStatus" /\ resp.status = 400 /\ resp.why = "self"
  /\ resp.user = resp.id /\ resp.isActive = JsonBool(FALSE)
  /\ \E u \in TokenUsers(resp.tok) : u.role = "admin" /\ u.isActive
  /\ \E i \in 1..Len(users) : ~users[i].isActive

-----------------------------------------------------------------------------
(* Properties of the items endpoints, checked under Spec.                  *)

\* C1: for every item of the store and every authenticated requester who is
\* neither its owner nor an admin, PUT /api/items/:id and DELETE
\* /api/items/:id leave the items store exactly as it was, and a request
\* that passes validation is answered 403.
C1_OwnershipRequired ==
  [][ (/\ resp'.op \in {"updateItem", "deleteItem"}
       /\ resp'.tok.kind = "jwt"
       /\ \E u \in TokenUsers(resp'.tok) :
            /\ u.isActive /\ u.role # "admin"
            /\ \E i \in 1..Len(items) :
                 items[i].id = resp'.id /\ items[i].userId # u.id) =>
        /\ items' = items
        /\ nextId' = nextId
        /\ resp'.why # "validation" => resp'.status = 403 ]_vars

\* a user without the admin role was answered 403 on a PUT for an item that
\* another user without the admin role owns
C1_Witness ==
  /\ resp.op = "updateItem" /\ resp.status = 403 /\ resp.why = "owner"
  /\ \E u \in TokenUsers(resp.tok) : u.role = "user" /\ u.id = resp.user
  /\ \E i \in 1..Len(items) :
       /\ items[i].id = resp.id /\ items[i].userId # resp.user
       /\ \E j \in 1..Len(users) :
            users[j].id = items[i].userId /\ users[j].role = "user"


-----------------------------------------------------------------------------
(* Properties of the list endpoint, checked under SpecQuery.               *)

\* a list request that passed validation was answered
Listed == resp.op = "listItems" /\ resp.status = 200

\* the items of the store whose price lies in lo..hi
InRange(lo, hi) == {i \in 1..Len(items) : lo <= items[i].price /\ items[i].price <= hi}

\* C9: GET /api/items?minPrice=X&maxPrice=Y with 0 <= X <= Y answers only
\* items whose price lies between X and Y, and totalItems counts only such
\* items; X = 0 and Y = 0 are included.
C9_PriceRange ==
  (/\ Listed
   /\ resp.query.minPrice.type = "number" /\ resp.query.maxPrice.type = "number"
   /\ resp.query.minPrice.val <= resp.query.maxPrice.val) =>
    LET X == resp.query.minPrice.val
        Y == resp.query.maxPrice.val
    IN /\ \A k \in 1..Len(resp.data) : X <= resp.data[k].price /\ resp.data[k].price <= Y
       /\ resp.pagination.totalItems <= Cardinality(InRange(X, Y))

\* the page and limit a valid query asks for
AskedPage(q) == IF q.page.type = "number" THEN q.page.val ELSE 1

AskedLimit(q) == IF q.limit.type = "number" THEN q.limit.val ELSE DefaultLimit

\* the data of pages 1..n of query q, one after the other
RECURSIVE PagesUpTo(_, _)
PagesUpTo(q, n) ==
  IF n = 0 THEN <<>>
  ELSE PagesUpTo(q, n - 1) \o listItems([q EXCEPT !.page = JsonNum(n)]).data

\* C10: with N items passing the filters and limit L, totalPages is the
\* least number of pages of L items that hold N items (ceil(N/L)); the data
\* of pages 1..totalPages, one after the other, is the filtered set in sort
\* order, every item exactly once; hasNextPage holds exactly when
\* skip + limit < N, hasPreviousPage exactly when page > 1; a page beyond
\* totalPages is empty.
C10_Pagination ==
  Listed =>
    LET q == resp.query
        page == AskedPage(q)
        L == AskedLimit(q)
        passing == {i \in 1..Len(items) : passesFilters(items[i], getFilterParams(q))}
        N == Cardinality(passing)
        pg == resp.pagination
        all == PagesUpTo(q, pg.totalPages)
    IN /\ pg.totalItems = N
       /\ pg.totalPages * L >= N
       /\ pg.totalPages = 0 \/ (pg.totalPages - 1) * L < N
       /\ Len(all) = N
       /\ \A i \in passing : \E k \in 1..N : all[k] = items[i]
       /\ \A k, l \in 1..N : k < l => /\ all[k] # all[l]
                                      /\ compareItems(all[k], all[l], getSortParams(q)) <= 0
       /\ resp.data = SubSeq(all, (page - 1) * L + 1, Min(page * L, N))
       /\ pg.hasNextPage <=> (page - 1) * L + L < N
       /\ pg.hasPreviousPage <=> page > 1
       /\ page > pg.totalPages => resp.data = <<>>

\* the last of two pages was answered: it holds the one item the first page
\* left, the cheapest one of a store sorted by price, highest first
C10_Witness ==
  /\ Listed
  /\ resp.pagination.totalPages = 2 /\ resp.pagination.currentPage = 2
  /\ resp.pagination.totalItems = 3 /\ Len(resp.data) = 1
  /\ resp.pagination.hasPreviousPage /\ ~resp.pagination.hasNextPage
  /\ resp.query.sortBy = "price" /\ resp.data[1].price = 0
  /\ \E i \in 1..Len(items) : items[i].price > 0

\* the request for a page beyond the last one was answered
C10_BeyondWitness ==
  /\ Listed
  /\ resp.pagination.totalPages = 2 /\ resp.pagination.currentPage = 3

-----------------------------------------------------------------------------
(* Properties of the filters of the list endpoint, checked under           *)
(* SpecFilter.  Its requests give no page and no limit, so the one page    *)
(* they are answered holds the whole result set.                           *)

\* the ids of the items of the response
DataIds == {resp.data[k].id : k \in 1..Len(resp.data)}

\* the items of the store that are in the response
Shown == {i \in 1..Len(items) : items[i].id \in DataIds}

\* C11: without an active parameter the list holds only items with isActive
\* true; with active=false only items with isActive false; with active=true
\* only items with isActive true; no other query shows an inactive item.
C11_ActiveFilter ==
  Listed =>
    LET active == resp.query.active IN
    /\ active = JsonUndefined => \A i \in Shown : items[i].isActive
    /\ active = JsonString("false") => \A i \in Shown : ~items[i].isActive
    /\ active = JsonString("true") => \A i \in Shown : items[i].isActive
    /\ (\E i \in Shown : ~items[i].isActive) => active = JsonString("false")


\* C12: an item is in the result set exactly when it passes every criterion
\* the query supplies: with category=C only items with categoryId = C, with
\* userId=V, whatever V is (0 and a non-numeric value included), only items
\* with userId = V; the criteria combine with AND.  Stated for requests
\* without active and tags, whose result set holds active items only.
C12_SuppliedCriteria ==
  (Listed /\ resp.query.active = JsonUndefined /\ resp.query.tags = JsonUndefined) =>
    LET q == resp.query IN
    Shown = {i \in 1..Len(items) :
               /\ items[i].isActive
               /\ q.category # JsonUndefined => items[i].categoryId = q.category.val
               /\ q.userId # JsonUndefined =>
                    q.userId.type = "number" /\ items[i].userId = q.userId.val}

\* the spellings of one tag
TagSpellings == {{"tech", "Tech", "TECH"}, {"sale", "Sale"}, {"books"}}

\* two tags are equal when case is ignored
SameTag(a, b) == \E c \in TagSpellings : a \in c /\ b \in c

\* item i of the store has at least one of the tags the query asks for
HasRequestedTag(i, q) ==
  \E k \in 1..Len(q.tags.val) : \E j \in 1..Len(items[i].tags) :
    SameTag(items[i].tags[j], Trim(q.tags.val[k]))

\* C13: with tags=t1,...,tn an item passes the tag criterion exactly when at
\* least one of its tags equals, ignoring case, at least one requested tag:
\* the result set is the result set of the same query without tags, less the
\* items that have none of the requested tags.
C13_TagsAnyOf ==
  (Listed /\ resp.query.tags.type = "array" /\ resp.query.tags.val # <<"">>) =>
    LET q == resp.query
        others == listItems([q EXCEPT !.tags = JsonUndefined]).data
        otherIds == {others[k].id : k \in 1..Len(others)}
    IN Shown = {i \in 1..Len(items) : items[i].id \in otherIds /\ HasRequestedTag(i, q)}

\* of two inactive items the list with active=false and tags=books, sale
\* shows the one tagged Sale and TECH, which has one of the two tags in
\* another case, and not the one without tags
C13_Witness ==
  /\ Listed
  /\ resp.query.tags = JsonArray(<<"books", " sale">>)
  /\ resp.query.active = JsonString("false")
  /\ \E i \in Shown : items[i].tags = <<"Sale", "TECH">>
  /\ \E i \in 1..Len(items) : i \notin Shown /\ ~items[i].isActive /\ items[i].tags = <<>>

-----------------------------------------------------------------------------
(* Properties of the sort of the list endpoint, checked under SpecSort.    *)

\* the place of a name in the alphabet when case is ignored
NameOrder(name) ==
  CASE name = "apple" -> 1
    [] name \in {"banana", "Banana"} -> 2
    [] name = "Cherry" -> 3

\* the key a list is to be ordered by: the given one if it is allowed, else id
EffectiveKey(q) == IF q.sortBy \in allowedSorts THEN q.sortBy ELSE "id"

KeyOf(item, key) == IF key = "name" THEN NameOrder(item.name) ELSE item[key]

\* the place of an item of the response in the store
StorePos(item) == CHOOSE i \in 1..Len(items) : items[i].id = item.id

\* the response holds every item of the store once, ordered by the effective
\* key, ascending unless sortOrder is desc, names compared without case, and
\* items with equal keys in the order of the store
Ordered(q) ==
  /\ Len(resp.data) = Len(items)
  /\ DataIds = {items[i].id : i \in 1..Len(items)}
  /\ \A k \in 1..(Len(resp.data) - 1) :
       LET a == KeyOf(resp.data[k], EffectiveKey(q))
           b == KeyOf(resp.data[k + 1], EffectiveKey(q))
       IN /\ IF q.sortOrder = "desc" THEN a >= b ELSE a <= b
          /\ a = b => StorePos(resp.data[k]) < StorePos(resp.data[k + 1])

\* C14 (as stated): for every allowed sortBy the list is ordered by that key,
\* ascending by default and descending for sortOrder=desc, string keys
\* compared case-insensitively and equal keys in store order in both
\* directions; a request with a sortBy outside the allow-list is answered
\* the list ordered by id.
C14_SortedWithFallback ==
  (resp.op = "listItems" /\ resp.query.sortOrder \in {"", "asc", "desc"}) =>
    Listed /\ Ordered(resp.query)

\* C14 (amended): as above for every allowed sortBy; the list is ordered by
\* id when no sortBy is given, and a request with a sortBy outside the
\* allow-list is answered 400 and no list.
C14_Sorted ==
  resp.op = "listItems" =>
    /\ Listed => Ordered(resp.query)
    /\ resp.query.sortBy \notin allowedSorts \cup {""} =>
         resp.status = 400 /\ resp.data = <<>>

\* names listed in descending order without case: Cherry, then banana and
\* Banana, which tie and keep the order of the store
C14_Witness ==
  /\ Listed /\ resp.query.sortBy = "name" /\ resp.query.sortOrder = "desc"
  /\ Len(resp.data) = 3
  /\ resp.data[1].name = "Cherry" /\ resp.data[2].name = "banana"
  /\ resp.data[3].name = "Banana"
  /\ StorePos(resp.data[1]) = 2 /\ StorePos(resp.data[2]) = 1


-----------------------------------------------------------------------------
(* C15: a bulk creation that passes validation, with n drafts, skips each  *)
(* draft whose categoryId names no existing category, with exactly one     *)
(* message in errors that names the draft, and appends every other draft   *)
(* to the items store, in order, owned by the requester and with the next  *)
(* ids; created and errors together have n entries, and the store grows    *)
(* by the created items and by nothing else.                               *)

BulkCreated == resp'.op = "createItemsBulk" /\ resp'.status = 201

NamesNoCategory(draft) ==
  /\ draft.categoryId.type = "number"
  /\ \A c \in 1..Len(categories) : categories[c].id # draft.categoryId.val

BadDrafts(list) == {i \in 1..Len(list) : NamesNoCategory(list[i])}

\* the position in list of the k-th draft that is not a bad one
GoodDraft(list, k) ==
  CHOOSE i \in (1..Len(list)) \ BadDrafts(list) :
    Cardinality({j \in (1..i) \ BadDrafts(list) : TRUE}) = k

-----------------------------------------------------------------------------
(* C16: a bulk deletion of 1 to 50 positive ids by an authenticated user   *)
(* is answered with deleted and errors; an id is removed and listed in     *)
(* deleted iff an item with that id exists when the id is reached and the  *)
(* requester is its owner or an admin, every other id (absent, repeated,   *)
(* or not the requester's to delete) adds a message to errors, the two     *)
(* arrays together have one entry per id, and exactly the listed items     *)
(* that the requester may delete have left the store.                      *)

BulkDeleteAsked ==
  /\ resp'.op = "deleteItemsBulk"
  /\ AuthUser(resp'.tok) # 0 /\ users[AuthUser(resp'.tok)].isActive
  /\ Len(resp'.list) >= 1 /\ Len(resp'.list) <= BulkMax
  /\ \A k \in 1..Len(resp'.list) : resp'.list[k] >= 1

MayDelete(item, user) == item.userId = user.id \/ user.role = "admin"

\* item is one that the requester asks to delete and may delete
Removable(item) ==
  /\ \E k \in 1..Len(resp'.list) : resp'.list[k] = item.id
  /\ MayDelete(item, users[AuthUser(resp'.tok)])

Kept(item) == ~Removable(item)

C16_BulkDelete ==
  [][BulkDeleteAsked =>
       /\ resp'.status = 200
       /\ Len(resp'.deleted) + Len(resp'.errors) = Len(resp'.list)
       /\ items' = SelectSeq(items, Kept)
       /\ {resp'.deleted[k] : k \in 1..Len(resp'.deleted)}
            = {items[i] : i \in {j \in 1..Len(items) : Removable(items[j])}}]_vars


-----------------------------------------------------------------------------
(* C17: no user object in the body of an answer (of POST /auth/register,   *)
(* POST /auth/login, GET /auth/me, GET /api/users, GET /api/users/:id,     *)
(* PUT /api/users/:id/status, or attached to an item) has a password       *)
(* field, and so none holds a password hash.                               *)

UserViews == {resp.views[k] : k \in 1..Len(resp.views)}

C17_NoPasswordInResponses == \A view \in UserViews : "password" \notin DOMAIN view

\* the admin is answered the data of a registered user, whose hash is stored
C17_Witness ==
  /\ resp.op = "getUserById" /\ resp.status = 200
  /\ \E view \in UserViews :
       /\ view.id = 3 /\ view.username = "bob" /\ view.email = "bob@example.com"
       /\ users[3].password = bcryptHash("Passw0rd1")


-----------------------------------------------------------------------------
(* C18: a request to an items endpoint that carries no token is answered   *)
(* 401 and with no item data.                                              *)

ItemsOps ==
  {"listItems", "getItem", "createItem", "updateItem", "deleteItem",
   "createItemsBulk", "deleteItemsBulk"}

C18_ItemsRequireAuth ==
  (resp.op \in ItemsOps /\ resp.tok.kind = "none") =>
    (resp.status = 401 /\ resp.data = <<>>)


-----------------------------------------------------------------------------
(* C19, as claimed: after a successful PUT /api/items/:id the mutable      *)
(* fields of the stored item (name, description, price, categoryId, tags,  *)
(* stock) are determined by the request body alone: the same request made  *)
(* on an item with other previous values would store the same fields.      *)

MutableFields == {"name", "description", "price", "categoryId", "tags", "stock"}

OptionalFields == {"price", "categoryId", "tags", "stock"}

Mutable(item) == [f \in MutableFields |-> item[f]]

\* the step is a PUT /api/items/:id that succeeds
Updated == resp'.op = "updateItem" /\ resp'.status = 200

C19_FullReplace ==
  [][Updated =>
       \A body \in UpdateBodies :
         UpdateItem(resp'.tok, resp'.id, body) =>
           \A j \in 1..Len(items) :
             Mutable(items'[findItemById(resp'.id)])
               = Mutable(updatedItem(items[j], body, users[AuthUser(resp'.tok)]))]_vars

(* C19, amended: a successful PUT /api/items/:id replaces name and         *)
(* description with the (trimmed) values of the request, and each of       *)
(* price, categoryId, tags and stock with the value of the request when    *)
(* the body gives one; a field of these four that the body omits keeps the *)
(* item's previous value, and no other item changes.                       *)
C19_ReplaceGiven ==
  [][Updated =>
       \A body \in UpdateBodies :
         UpdateItem(resp'.tok, resp'.id, body) =>
           LET itemIndex == findItemById(resp'.id)
               old == items[itemIndex]
               new == items'[itemIndex]
           IN /\ new.name = Trim(body.name)
              /\ new.description = Trim(body.description)
              /\ \A f \in OptionalFields :
                   new[f] = IF body[f].type = "undefined" THEN old[f] ELSE body[f].val
              /\ Len(items') = Len(items)
              /\ \A i \in 1..Len(items) : i # itemIndex => items'[i] = items[i]]_vars

\* item 1 after an update that gave the price 0 and omitted the tags
C19_Witness ==
  /\ resp.op = "updateItem" /\ resp.status = 200 /\ resp.id = 1
  /\ items[1].name = "Tablet" /\ items[1].price = 0
  /\ items[1].tags = InitItems[1].tags


-----------------------------------------------------------------------------
(* C20: for a list request that reaches the handler, the effective page is *)
(* at least 1, the effective limit is within 1..100 and is 10 when the     *)
(* request gives none, skip is (page - 1) * limit, and the answer holds at *)
(* most limit items, so never more than 100: the items that follow the     *)
(* first skip ones of the store's active items.                            *)

ActiveItems == LET P(item) == item.isActive IN SelectSeq(items, P)

C20_PageAndLimit ==
  Listed =>
    LET q == resp.query
        p == getPaginationParams(q)
    IN /\ p.page >= 1 /\ p.page = resp.pagination.currentPage
       /\ p.limit >= 1 /\ p.limit <= 100 /\ p.limit = resp.pagination.itemsPerPage
       /\ q.limit = JsonUndefined => p.limit = 10
       /\ p.skip = (p.page - 1) * p.limit
       /\ Len(resp.data) <= p.limit /\ Len(resp.data) <= 100
       /\ \A k \in 1..Len(resp.data) : resp.data[k] = ActiveItems[p.skip + k]

\* the second page of one item, of a store of three active items
C20_Witness ==
  /\ Listed
  /\ resp.query.page = JsonNum(2) /\ resp.query.limit = JsonNum(1)
  /\ Len(ActiveItems) = 3
  /\ resp.data = <<ActiveItems[2]>>


-----------------------------------------------------------------------------
(* C21: in every reachable state every item's userId is the id of a user   *)
(* in users, and every item's categoryId is null or the id of a category   *)
(* in categories, after any sequence of item creations, bulk creations,    *)
(* updates, deletions, category creations and registrations.               *)

C21_References ==
  \A i \in 1..Len(items) :
    /\ \E u \in 1..Len(users) : users[u].id = items[i].userId
    /\ \/ items[i].categoryId = Null
       \/ \E c \in 1..Len(categories) : categories[c].id = items[i].categoryId

\* an item of the registered user in the category the admin created
C21_Witness ==
  \E i \in 1..Len(items) :
    /\ items[i].userId = 3 /\ items[i].categoryId = 4
    /\ Len(users) >= 3 /\ Len(categories) = 4


-----------------------------------------------------------------------------
(* C22: within users, items and categories the ids are unique in every     *)
(* reachable state, and they are allocated strictly increasingly: a record *)
(* that a step adds to a store has an id at least the store's counter      *)
(* before the step and below the counter after it, the counter never       *)
(* decreases, and every id of the store is below the counter, so the id of *)
(* a deleted item is never given again; registrations in flight together   *)
(* included.                                                               *)

Ids(store) == {store[i].id : i \in 1..Len(store)}

UniqueIds(store) == \A i, j \in 1..Len(store) : i # j => store[i].id # store[j].id

\* the ids of store are unique and allocated below counter
Allocated(store, counter) ==
  UniqueIds(store) /\ \A id \in Ids(store) : id < counter

\* the records a step adds to store have ids from counter up to the new counter
AllocatesFrom(store, counter, newStore, newCounter) ==
  /\ newCounter >= counter
  /\ \A id \in Ids(newStore) \ Ids(store) : id >= counter /\ id < newCounter

C22_Ids ==
  /\ [](/\ Allocated(users, nextUserId)
        /\ Allocated(items, nextId)
        /\ Allocated(categories, nextCategoryId))
  /\ [][/\ AllocatesFrom(users, nextUserId, users', nextUserId')
        /\ AllocatesFrom(items, nextId, items', nextId')
        /\ AllocatesFrom(categories, nextCategoryId, categories', nextCategoryId')]_vars

\* item 2 was deleted and the item created after it has the id 3; both
\* registrations that were in flight together have their own ids
C22_Witness ==
  /\ resp.op = "createItem" /\ resp.status = 201 /\ resp.id = 3
  /\ 2 \notin Ids(items) /\ 3 \in Ids(items)
  /\ Ids(users) = {1, 2, 3, 4} /\ users[3].username = users[4].username


-----------------------------------------------------------------------------
(* C23, as claimed: on POST /api/items, POST /api/items/bulk and           *)
(* PUT /api/items/:id validation runs before authentication: a request     *)
(* with an invalid payload and no token is answered 400 by the validation. *)

\* the step answers a request of token resp'.tok with the item body `body`,
\* alone, as the one draft of a bulk creation, or as an update
WritesItem(body) ==
  \/ CreateItem(resp'.tok, body)
  \/ CreateItemsBulk(resp'.tok, <<body>>)
  \/ \E id \in 0..MaxItems : UpdateItem(resp'.tok, id, body)

InvalidBodies == {body \in StageBodies : ~validateItemData(body)}

-----------------------------------------------------------------------------
(* C24: GET /api/items, whatever its filters, sort and page, and           *)
(* GET /api/items/:id leave items (its order included), users and          *)
(* categories unchanged; each item of the answer comes with a copy of the  *)
(* id and name of its category and of the id and username of its user      *)
(* (and email, for GET /api/items/:id), or with null where the category or *)
(* the user is absent.                                                     *)

Read == resp'.op \in {"listItems", "getItem"}

\* view holds the fields of the record of store with the id `id`, or is null
\* when there is none
CopyOf(view, store, id, fields) ==
  IF \E i \in 1..Len(store) : store[i].id = id
    THEN \E i \in 1..Len(store) :
           /\ store[i].id = id
           /\ DOMAIN view = fields
           /\ \A f \in fields : view[f] = store[i][f]
    ELSE view = NullView

C24_ReadsArePure ==
  [][Read =>
       /\ UNCHANGED <<items, users, categories, nextId, nextUserId, nextCategoryId>>
       /\ resp'.status = 200 =>
            /\ Len(resp'.enriched) = Len(resp'.data)
            /\ \A k \in 1..Len(resp'.data) :
                 /\ CopyOf(resp'.enriched[k].category, categories,
                           resp'.data[k].categoryId, {"id", "name"})
                 /\ CopyOf(resp'.enriched[k].user, users, resp'.data[k].userId,
                           IF resp'.op = "getItem" THEN {"id", "username", "email"}
                           ELSE {"id", "username"})]_vars

\* a list sorted by price, in another order than the store's, whose second
\* item has a category and whose third has none
C24_Witness ==
  /\ Listed /\ resp.query.sortBy = "price" /\ Len(resp.data) = 3
  /\ resp.data[1].id = 3 /\ resp.data[2].id = 2 /\ resp.data[3].id = 1
  /\ resp.enriched[1].category = NullView
  /\ resp.enriched[2].category = [id |-> 2, name |-> "Books"]
  /\ resp.enriched[2].user = [id |-> 2, username |-> "user1"]
  /\ items[1].id = 1


-----------------------------------------------------------------------------
(* C25: a login is answered 200 with a token only if the account is active *)
(* when the token is issued, however the status updates interleave with    *)
(* the login's password comparison.                                        *)

C25_TokenOnlyIfActive ==
  [][(LoginFinishStep /\ resp'.status = 200 /\ resp'.issued # NoToken) =>
       \E i \in 1..Len(users') : users'[i].id = resp'.user /\ users'[i].isActive]_vars


-----------------------------------------------------------------------------
(* C26: in every reachable state at least one user with the role admin is  *)
(* active; registrations create users with the role user, no step changes  *)
(* a role or removes a user, and the admin's request to deactivate its own *)
(* account is refused.                                                     *)

ActiveAdmins == {i \in 1..Len(users) : users[i].role = "admin" /\ users[i].isActive}

C26_ActiveAdmin ==
  /\ [](ActiveAdmins # {})
  /\ [][/\ Len(users') >= Len(users)
        /\ \A i \in 1..Len(users) :
             users'[i].id = users[i].id /\ users'[i].role = users[i].role
        /\ \A i \in (Len(users) + 1)..Len(users') : users'[i].role = "user"]_vars

\* the admin has deactivated every other user, a registered one among them,
\* and its request to deactivate itself was refused
C26_Witness ==
  /\ resp.op = "putUserStatus" /\ resp.why = "self" /\ resp.id = 1
  /\ Len(users) >= 3
  /\ \A i \in 2..Len(users) : ~users[i].isActive
  /\ ActiveAdmins = {1}


-----------------------------------------------------------------------------
(* C27: a request that is answered with a 4xx status (a validation         *)
(* failure, 401, 403, 404, 409, an invalid category, a self-deactivation)  *)
(* leaves users, items, categories and the counters nextUserId, nextId and *)
(* nextCategoryId exactly as they were.                                    *)

Refused == resp'.status >= 400 /\ resp'.status <= 499

C27_RefusalsChangeNothing ==
  [][Refused =>
       UNCHANGED <<users, items, categories, nextUserId, nextId, nextCategoryId>>]_vars

\* an item creation refused for its category, on stores that earlier
\* requests have written to
C27_Witness ==
  /\ resp.op = "createItem" /\ resp.status = 400 /\ resp.why = "category"
  /\ Len(users) = 3 /\ Len(categories) = 4 /\ nextId = 3
  /\ \E i \in 1..Len(users) : ~users[i].isActive


-----------------------------------------------------------------------------
(* C28: the id, the userId and the createdAt of an item never change after *)
(* its creation.  A successful PUT /api/items/:id, by the owner or by an   *)
(* admin, keeps all three and keeps the item at its position in items, so  *)
(* an admin who updates the item of another user does not become its owner.*)

SameIdentity(before, after) ==
  /\ after.id = before.id
  /\ after.userId = before.userId
  /\ after.createdAt = before.createdAt

C28_IdentityKept ==
  [][/\ \A i \in 1..Len(items), j \in 1..Len(items') :
          items'[j].id = items[i].id => SameIdentity(items[i], items'[j])
     /\ resp'.op = "updateItem" /\ resp'.status = 200 =>
          /\ Len(items') = Len(items)
          /\ \A i \in 1..Len(items) : SameIdentity(items[i], items'[i])]_vars

\* the admin has updated the item of user 2, which is still that of user 2
C28_Witness ==
  /\ resp.op = "updateItem" /\ resp.status = 200 /\ resp.user = 1 /\ resp.id = 2
  /\ \E i \in 1..Len(items) :
       /\ items[i].id = 2 /\ items[i].userId = 2 /\ items[i].createdAt = 2
       /\ items[i].name = "Tablet" /\ items[i].updatedAt = Now


-----------------------------------------------------------------------------
(* C29: the isActive flag of an item changes only through a PUT            *)
(* /api/items/:id of an admin that supplies isActive.  A PUT of an owner   *)
(* who is not an admin leaves isActive as it was whatever its body holds,  *)
(* and a created item has isActive true.                                   *)

\* the step is a successful PUT /api/items/:id
Put == resp'.op = "updateItem" /\ resp'.status = 200

ByAdmin == users[findUserById(resp'.user)].role = "admin"

\* the step is a PUT of item id whose body supplies isActive
SuppliesIsActive(id) ==
  /\ resp'.id = id
  /\ \E body \in ActiveBodies :
       body.isActive # JsonUndefined /\ UpdateItem(resp'.tok, id, body)

C29_IsActive ==
  [][/\ \A i \in 1..Len(items), j \in 1..Len(items') :
          items'[j].id = items[i].id /\ items'[j].isActive # items[i].isActive =>
            Put /\ ByAdmin /\ SuppliesIsActive(items[i].id)
     /\ Put /\ ~ByAdmin =>
          \A i \in 1..Len(items) : items'[i].isActive = items[i].isActive
     /\ \A j \in 1..Len(items') :
          (\A i \in 1..Len(items) : items[i].id # items'[j].id) =>
            items'[j].isActive = TRUE]_vars

\* user1 has updated its item, which the admin had deactivated and which is
\* still inactive, beside an item created since
C29_Witness ==
  /\ resp.op = "updateItem" /\ resp.status = 200 /\ resp.user = 2 /\ resp.id = 2
  /\ \E i, j \in 1..Len(items) :
       /\ items[i].id = 2 /\ items[i].userId = 2 /\ ~items[i].isActive
       /\ items[j].id = 3 /\ items[j].isActive


-----------------------------------------------------------------------------
(* C30: PUT /api/items/:id makes its checks in the order existence,        *)
(* ownership, category.  Of the requests that pass authentication and      *)
(* validation: one for a missing id is answered 404 whoever the requester  *)
(* is; one by a requester who is neither the owner nor an admin, for an    *)
(* item of the store, is answered 403 even when its categoryId is invalid; *)
(* and 400 "Invalid category ID" is answered only to the owner or to an    *)
(* admin, for an item of the store.                                        *)

\* the step is a PUT /api/items/:id that has reached its handler
PutHandled == resp'.op = "updateItem" /\ resp'.why \notin {"auth", "validation"}

\* the items of the store, before the step, that the request names
Named == {i \in 1..Len(items) : items[i].id = resp'.id}

OwnerOrAdmin(item) ==
  \/ item.userId = resp'.user
  \/ users[findUserById(resp'.user)].role = "admin"

\* the step is a PUT whose body names a category that is not in the store
NamesInvalidCategory ==
  \E body \in PutBodies :
    /\ body.categoryId.val \notin {categories[i].id : i \in 1..Len(categories)}
    /\ UpdateItem(resp'.tok, resp'.id, body)

C30_CheckOrder ==
  [][PutHandled =>
       /\ Named = {} => resp'.status = 404
       /\ \A i \in Named : ~OwnerOrAdmin(items[i]) => resp'.status = 403
       /\ resp'.status = 400 <=>
            /\ NamesInvalidCategory
            /\ \E i \in Named : OwnerOrAdmin(items[i])]_vars

\* user 3, who owns no item, has been refused the update of an item of the
\* store, and item 1 has been deleted
C30_Witness ==
  /\ resp.op = "updateItem" /\ resp.status = 403 /\ resp.user = 3 /\ resp.id = 2
  /\ Len(items) = 1 /\ items[1].id = 2

====
